---- MODULE Spec2Model ----
(***************************************************************************)
(* Model of the Ruby environments extension: the per-workspace resolver    *)
(* (RubyEnvironment), the registry that owns the resolvers                 *)
(* (RubyEnvironmentManager) with its configuration and workspace-folder    *)
(* watchers, the change bus, and the decoder of the activation script's    *)
(* output (parseActivationResult).                                         *)
(*                                                                         *)
(* Texts that the decoder reads are sequences of tokens: the three         *)
(* separators are the tokens "FRAME", "FS" and "VS", the comma is ",",     *)
(* and every other token is an ordinary piece of text.                     *)
(***************************************************************************)
EXTENDS Naturals, Sequences, FiniteSets

VARIABLES
  workspaceState,   \* context.workspaceState: storage key -> stored path
  config,           \* rubyEnvironments.rubyPath, scoped to each workspace
  environments,     \* RubyEnvironmentManager.environments: key -> rank, 0 none
  instances,        \* the RubyEnvironment objects constructed for each key
  calls,            \* the updateRubyDefinition() calls in flight
  probes,           \* the asyncExec invocations made by the last step
  events,           \* the ChangeEvents fired by the last step, in order
  resumed,          \* the awaited call that resumed in the last step
  folders,          \* vscode.workspace.workspaceFolders, as keys in order
  tasks,            \* the manager's async handlers in flight
  resolved,         \* the objects whose updateRubyDefinition() has returned
  discarded,        \* the folders removed and not added or activated since
  returned,         \* what the last step returned to its caller
  item,             \* RubyStatus.item: the language status item
  heap,             \* the definition objects constructed, and who points at them
  host,             \* process.platform and vscode.env.shell
  stderr,           \* decoder input: the captured stderr text
  fields,           \* decoder input, when built from a frame's fields
  decoded           \* decoder output

vars == <<workspaceState, config, environments, instances, calls, probes,
          events, resumed, folders, tasks, resolved, discarded, returned,
          item, heap, host, stderr, fields, decoded>>

envVars == <<workspaceState, config, environments, instances, calls, probes,
             events, resumed>>
mgrVars ==
  <<folders, tasks, resolved, discarded, returned, item, heap, host>>
codecVars == <<stderr, fields, decoded>>

----------------------------------------------------------------------------
(* Bounds *)

MaxInFlight == 2   \* updateRubyDefinition() calls in flight at a time
MaxObjects == 3    \* RubyEnvironment objects constructed in a run
MaxHandlers == 1   \* handlers of the manager in flight at a time
MaxDefinitions == 3 \* definition objects constructed in a run
MaxLen == 5        \* tokens of a raw stderr text
MaxPaths == 2      \* gem paths of an encoded frame
MaxEntries == 2    \* environment entries of an encoded frame
MaxValueLen == 2   \* tokens of an environment value that holds separators

----------------------------------------------------------------------------
(* Values *)

Undefined == "<undefined>"                 \* JavaScript undefined
Falsy(s) == s = Undefined \/ s = ""        \* !s for string | undefined
Or(a, b) == IF Falsy(a) THEN b ELSE a      \* a || b

NullDef == [null |-> TRUE]                 \* OptionalRubyDefinition: null
ErrorDef == [error |-> TRUE]               \* RubyError
Thrown == [thrown |-> TRUE]                \* an exception instead of a value
Void == [void |-> TRUE]                    \* a Promise<void> that resolved

ACTIVATION_SEPARATOR == "FRAME"
VALUE_SEPARATOR == "VS"
FIELD_SEPARATOR == "FS"
UndefText == <<"<undefined>">>             \* undefined where a text is expected

----------------------------------------------------------------------------
(* WorkspaceContext *)

DefaultKey == "__default__"
Keys == {DefaultKey, "file:///w1", "file:///w2"}
LastKey == "file:///w2"

IsDefault(k) == k = DefaultKey

\* the workspace arguments of the API: a folder, named by its uri, or undefined
Workspaces == {Undefined} \cup (Keys \ {DefaultKey})

\* WorkspaceContext.from(workspace).key
KeyOfDefault(w) == DefaultKey
KeyOf(w) == IF w = Undefined THEN DefaultKey ELSE w

\* WorkspaceContext.workspaceFolder
WorkspaceFolder(k) == IF IsDefault(k) THEN Undefined ELSE k

\* WorkspaceContext.uri.fsPath
FsPath(k) == IF IsDefault(k) THEN "<process.cwd>" ELSE "dir:" \o k

\* WorkspaceContext.getStorageKey
GetStorageKeyShared(k) == "rubyPath"
GetStorageKey(k) == IF IsDefault(k) THEN "rubyPath" ELSE "rubyPath:" \o k

StorageKeys == {GetStorageKey(k) : k \in Keys}

----------------------------------------------------------------------------
(* Texts and the JavaScript string operations the decoder uses *)

Min(S) == CHOOSE x \in S : \A y \in S : x <= y
Max(S) == CHOOSE x \in S : \A y \in S : x >= y

Positions(s, tok) == {i \in 1..Len(s) : s[i] = tok}

\* String.prototype.split with a one-token separator: every occurrence
\* splits, and a text without the separator (the empty text too) gives a
\* one-element array.
RECURSIVE Split(_, _)
Split(s, sep) ==
  IF Positions(s, sep) = {}
    THEN <<s>>
    ELSE LET i == Min(Positions(s, sep))
         IN <<SubSeq(s, 1, i - 1)>> \o Split(SubSeq(s, i + 1, Len(s)), sep)

\* Array.prototype.join with a one-token separator
RECURSIVE Join(_, _)
Join(parts, sep) ==
  IF Len(parts) = 0 THEN <<>>
  ELSE IF Len(parts) = 1 THEN parts[1]
  ELSE parts[1] \o <<sep>> \o Join(Tail(parts), sep)

\* new RegExp(`${SEP}([^]*)${SEP}`).exec(stderr): the match starts at the
\* leftmost separator and the greedy group runs to the last one. The result
\* is <<>> for null and <<group 1>> for a match.
RegExpExec(text) ==
  LET occ == Positions(text, ACTIVATION_SEPARATOR)
  IN IF Cardinality(occ) < 2
       THEN <<>>
       ELSE <<SubSeq(text, Min(occ) + 1, Max(occ) - 1)>>

\* Object.fromEntries over arrays produced by split: element 0 is the key,
\* element 1 (undefined when absent) the value, a later entry overwrites.
FromEntriesFirstWins(entries) ==
  LET keys == {entries[i][1] : i \in 1..Len(entries)}
  IN [k \in keys |->
        LET first == Min({i \in 1..Len(entries) : entries[i][1] = k})
        IN IF Len(entries[first]) >= 2 THEN entries[first][2] ELSE UndefText]
FromEntries(entries) ==
  LET keys == {entries[i][1] : i \in 1..Len(entries)}
  IN [k \in keys |->
        LET last == Max({i \in 1..Len(entries) : entries[i][1] = k})
        IN IF Len(entries[last]) >= 2 THEN entries[last][2] ELSE UndefText]

\* RubyEnvironment.parseActivationResult. gemPath.split on an undefined
\* gemPath (a frame with a single field) is a TypeError.
ParseActivationResultOneSeparator(text) ==
  LET occ == Positions(text, ACTIVATION_SEPARATOR)
      content == IF occ = {} THEN <<>>
                 ELSE SubSeq(text, Min(occ) + 1, Len(text))
      parts == Split(content, FIELD_SEPARATOR)
  IN IF occ = {} THEN ErrorDef
     ELSE IF Len(parts) < 2 THEN Thrown
     ELSE [error |-> FALSE, rubyVersion |-> parts[1],
           gemPath |-> Split(parts[2], ","),
           availableJITs |-> IF Len(parts) >= 3 /\ parts[3] # <<>>
                               THEN <<"YJIT">> ELSE <<>>,
           env |-> FromEntries([i \in 1..(Len(parts) - 3) |->
                                  Split(parts[i + 3], VALUE_SEPARATOR)])]
ParseActivationResultNoJit(text) ==
  LET activationContent == RegExpExec(text)
      parts == Split(activationContent[1], FIELD_SEPARATOR)
  IN IF activationContent = <<>> THEN ErrorDef
     ELSE IF Len(parts) < 2 THEN Thrown
     ELSE [error |-> FALSE, rubyVersion |-> parts[1],
           gemPath |-> Split(parts[2], ","),
           availableJITs |-> <<>>,
           env |-> FromEntries([i \in 1..(Len(parts) - 3) |->
                                  Split(parts[i + 3], VALUE_SEPARATOR)])]
ParseActivationResult(text) ==
  LET activationContent == RegExpExec(text)
      parts == Split(activationContent[1], FIELD_SEPARATOR)
  IN IF activationContent = <<>> THEN ErrorDef
     ELSE IF Len(parts) < 2 THEN Thrown
     ELSE [error |-> FALSE, rubyVersion |-> parts[1],
           gemPath |-> Split(parts[2], ","),
           availableJITs |-> IF Len(parts) >= 3 /\ parts[3] # <<>>
                               THEN <<"YJIT">> ELSE <<>>,
           env |-> FromEntries([i \in 1..(Len(parts) - 3) |->
                                  Split(parts[i + 3], VALUE_SEPARATOR)])]

\* The frame the activation script and the test helpers write:
\* SEP + [version, paths.join(","), jit, name VS value, ...].join(FS) + SEP
Encode(f) ==
  <<ACTIVATION_SEPARATOR>>
  \o Join(<<f.version, Join(f.paths, ","), f.jit>>
          \o [i \in 1..Len(f.entries) |->
                f.entries[i][1] \o <<VALUE_SEPARATOR>> \o f.entries[i][2]],
          FIELD_SEPARATOR)
  \o <<ACTIVATION_SEPARATOR>>

----------------------------------------------------------------------------
(* The probe: asyncExec and what it can return *)

NoResult == [pending |-> TRUE]
Rejected == [rejected |-> TRUE]             \* spawn error, not found, exit # 0
Resolved(text) == [rejected |-> FALSE, stderr |-> text]

TextNoFrame == <<"a", "FS", "b">>
TextA == <<"FRAME", "a", "FS", "a", ",", "b", "FS", "true", "FS",
           "a", "VS", "b", "FRAME">>
ProbeTexts == {TextNoFrame, TextA}
ExecResults == {Rejected} \cup {Resolved(t) : t \in ProbeTexts}

----------------------------------------------------------------------------
(* RubyEnvironment *)

StoredPaths == {Undefined, "/state/ruby"}
ConfigPaths == {"", "/config/ruby"}
UserPaths == {"/new/ruby"}

RemoveAt(s, i) == SubSeq(s, 1, i - 1) \o SubSeq(s, i + 1, Len(s))

\* A RubyEnvironment object is named by its workspace key and its rank among
\* the objects constructed for that key.
NewInstanceError == [currentRubyDefinition |-> ErrorDef]
NewInstance == [currentRubyDefinition |-> NullDef]

\* the number of objects constructed so far
RECURSIVE Total(_, _)
Total(f, S) ==
  IF S = {} THEN 0
  ELSE LET k == CHOOSE x \in S : TRUE IN Len(f[k]) + Total(f, S \ {k})
Objects == Total(instances, Keys)

\* RubyEnvironment.getRubyPath
GetRubyPathConfigFirst(k) == Or(config[k], workspaceState[GetStorageKey(k)])
GetRubyPathDefaultRuby(k) ==
  Or(Or(workspaceState[GetStorageKey(k)], config[k]), "ruby")
GetRubyPath(k) == Or(workspaceState[GetStorageKey(k)], config[k])

\* the value of getRubyDefinitionFromConfig() once asyncExec has settled with
\* r: the try block awaits asyncExec and parses, the catch block turns
\* whatever was thrown into the error definition
GetRubyDefinitionFromConfigNoCatch(r) ==
  IF r.rejected THEN Thrown ELSE ParseActivationResult(r.stderr)
GetRubyDefinitionFromConfig(r) ==
  LET tried == IF r.rejected THEN Thrown ELSE ParseActivationResult(r.stderr)
  IN IF tried = Thrown THEN ErrorDef ELSE tried

\* the value of getRubyDefinitionFromConfig() when there is no path
NoPathDefinitionError == ErrorDef
NoPathDefinition == NullDef

\* this.currentRubyDefinition = d, on the object e
SetCurrentShared(insts, e, d) ==
  [k \in Keys |->
     [g \in 1..Len(insts[k]) |->
        [insts[k][g] EXCEPT !.currentRubyDefinition = d]]]
SetCurrent(insts, e, d) ==
  [insts EXCEPT ![e[1]][e[2]].currentRubyDefinition = d]

\* this.changeEmitter.fire(ev)
FireTwice(ev) == <<ev, ev>>
Fire(ev) == <<ev>>

\* the event updateRubyDefinition() builds on the object e, after the
\* assignment
ChangeEventStale(e) ==
  [workspace |-> WorkspaceFolder(e[1]),
   ruby |-> instances[e[1]][e[2]].currentRubyDefinition]
ChangeEvent(e) ==
  [workspace |-> WorkspaceFolder(e[1]),
   ruby |-> instances'[e[1]][e[2]].currentRubyDefinition]

\* RubyEnvironment.getRuby
GetRuby(e) == instances[e[1]][e[2]].currentRubyDefinition

\* RubyEnvironmentManager.getRuby
ManagerGetRuby(k) ==
  IF environments[k] = 0 THEN NullDef ELSE GetRuby(<<k, environments[k]>>)

\* The host: the platform the process runs on and the shell the user has
\* configured in the editor, "" when the editor knows none
Platforms == {"win32", "linux", "darwin"}
Shells == {"", "/bin/zsh", "/bin/bash"}
Hosts == [platform : Platforms, shell : Shells]
UnixHost == [platform |-> "linux", shell |-> "/bin/zsh"]

\* isWindows()
IsWindows == host.platform = "win32"

\* the shell option of the probe: vscode.env.shell where it is not empty and
\* the platform is not Windows, undefined otherwise
ShellOptionAnyPlatform ==
  IF host.shell # "" THEN host.shell ELSE Undefined
ShellOption ==
  IF host.shell # "" /\ ~IsWindows THEN host.shell ELSE Undefined

\* the asyncExec invocation of a call: command path, cwd, shell and the
\* environment handed to the child process
ExecCwdProcess(c) ==
  [env |-> c.env, command |-> c.path, cwd |-> FsPath(DefaultKey),
   shell |-> ShellOption, base |-> "process.env"]
Exec(c) ==
  [env |-> c.env, command |-> c.path, cwd |-> FsPath(c.env[1]),
   shell |-> ShellOption, base |-> "process.env"]

\* an updateRubyDefinition() call on the object e that has run up to its
\* first await: the path is read, and asyncExec is invoked if there is one
StartedCall(e, origin) ==
  LET rubyPath == GetRubyPath(e[1])
  IN [env |-> e, origin |-> origin, path |-> rubyPath,
      state |-> IF Falsy(rubyPath) THEN "nopath" ELSE "probing"]

ProbesOf(c) == IF c.state = "probing" THEN <<Exec(c)>> ELSE <<>>

\* RubyEnvironmentManager.createEnvironment, up to the first await of
\* environment.activate(): a new object is constructed and put in the map
\* under the key, whatever the map held there
CreateEnvironment(k) ==
  /\ Objects < MaxObjects
  /\ Len(calls) < MaxInFlight
  /\ instances' = [instances EXCEPT ![k] = Append(@, NewInstance)]
  /\ environments' = [environments EXCEPT ![k] = Len(instances[k]) + 1]
  /\ LET c == StartedCall(<<k, Len(instances[k]) + 1>>, "activate")
     IN /\ calls' = Append(calls, c)
        /\ probes' = ProbesOf(c)
  /\ events' = <<>>
  /\ resumed' = <<>>
  /\ UNCHANGED <<workspaceState, config, codecVars>>

\* RubyEnvironmentManager.activateWorkspace for a key the map does not hold,
\* up to the first await
RegisterEnvironment(k) ==
  /\ environments[k] = 0
  /\ CreateEnvironment(k)

\* RubyEnvironment.selectRuby with a path chosen by the user, up to the await
\* of workspaceState.update; the call keeps newPath for its message
SelectRubyStoreNoWrite(k, newPath) ==
  /\ environments[k] # 0
  /\ Len(calls) < MaxInFlight
  /\ UNCHANGED workspaceState
  /\ calls' = Append(calls, [env |-> <<k, environments[k]>>,
                             origin |-> "select", path |-> newPath,
                             state |-> "stored"])
  /\ probes' = <<>>
  /\ events' = <<>>
  /\ resumed' = <<>>
  /\ UNCHANGED <<config, environments, instances, codecVars>>
SelectRubyStore(k, newPath) ==
  /\ environments[k] # 0
  /\ Len(calls) < MaxInFlight
  /\ workspaceState' = [workspaceState EXCEPT ![GetStorageKey(k)] = newPath]
  /\ calls' = Append(calls, [env |-> <<k, environments[k]>>,
                             origin |-> "select", path |-> newPath,
                             state |-> "stored"])
  /\ probes' = <<>>
  /\ events' = <<>>
  /\ resumed' = <<>>
  /\ UNCHANGED <<config, environments, instances, codecVars>>

\* RubyEnvironment.selectRuby after workspaceState.update: the call of
\* updateRubyDefinition() up to its first await
SelectRubyUpdateResets(i) ==
  /\ calls[i].state = "stored"
  /\ LET c == StartedCall(calls[i].env, "select")
     IN /\ calls' = [calls EXCEPT ![i] = c]
        /\ probes' = ProbesOf(c)
  /\ instances' = SetCurrent(instances, calls[i].env, NullDef)
  /\ events' = <<>>
  /\ resumed' = <<>>
  /\ UNCHANGED <<workspaceState, config, environments, codecVars>>
SelectRubyUpdate(i) ==
  /\ calls[i].state = "stored"
  /\ LET c == StartedCall(calls[i].env, "select")
     IN /\ calls' = [calls EXCEPT ![i] = c]
        /\ probes' = ProbesOf(c)
  /\ events' = <<>>
  /\ resumed' = <<>>
  /\ UNCHANGED <<workspaceState, config, environments, instances, codecVars>>

\* updateRubyDefinition() after the await, where asyncExec settled with r (if
\* it was invoked) and getRubyDefinitionFromConfig() gave d: assign, fire,
\* return; an exception out of the awaited call skips both and leaves the
\* call raised
ResumeNewestOnly(i, d, r) ==
  /\ probes' = <<>>
  /\ resumed' = <<[call |-> calls[i], result |-> r]>>
  /\ calls' = RemoveAt(calls, i)
  /\ IF \E j \in (i + 1)..Len(calls) : calls[j].env = calls[i].env
       THEN /\ UNCHANGED instances
            /\ events' = <<>>
       ELSE /\ instances' = SetCurrent(instances, calls[i].env, d)
            /\ events' = Fire(ChangeEvent(calls[i].env))
Resume(i, d, r) ==
  /\ probes' = <<>>
  /\ resumed' = <<[call |-> calls[i], result |-> r]>>
  /\ IF d = Thrown
       THEN /\ calls' = [calls EXCEPT ![i].state = "raised"]
            /\ UNCHANGED instances
            /\ events' = <<>>
       ELSE /\ calls' = RemoveAt(calls, i)
            /\ instances' = SetCurrent(instances, calls[i].env, d)
            /\ events' = Fire(ChangeEvent(calls[i].env))

\* updateRubyDefinition() resumes when no path was configured
FinishNoPath(i) ==
  /\ calls[i].state = "nopath"
  /\ Resume(i, NoPathDefinition, NoResult)
  /\ UNCHANGED <<workspaceState, config, environments, codecVars>>

\* asyncExec settles with r and updateRubyDefinition() resumes
FinishProbeRetry(i, r) ==
  /\ calls[i].state = "probing"
  /\ IF r.rejected
       THEN /\ probes' = <<Exec(calls[i])>>
            /\ events' = <<>>
            /\ resumed' = <<>>
            /\ UNCHANGED <<calls, instances>>
       ELSE Resume(i, GetRubyDefinitionFromConfig(r), r)
  /\ UNCHANGED <<workspaceState, config, environments, codecVars>>
FinishProbe(i, r) ==
  /\ calls[i].state = "probing"
  /\ Resume(i, GetRubyDefinitionFromConfig(r), r)
  /\ UNCHANGED <<workspaceState, config, environments, codecVars>>

----------------------------------------------------------------------------
(* RubyEnvironmentManager: the handlers that await the resolvers *)

Range(s) == {s[i] : i \in 1..Len(s)}

\* the sequences that list the elements of S once each
Orderings(S) == {s \in [1..Cardinality(S) -> S] : Range(s) = S}

FolderKeys == Keys \ {DefaultKey}

\* the scopes whose rubyPath setting changes while the extension runs
ChangedScopes == {"file:///w1"}

\* this.environments.keys() and this.environments.values()
Registered == {k \in Keys : environments[k] # 0}
RegisteredObjects == {<<k, environments[k]>> : k \in Registered}

\* An async handler of the manager that has not returned: the keys (or, for
\* the configuration watcher, the objects) it was started over, the keys its
\* loop has still to take, the map entries its iterator has passed, the
\* objects it has created or updated so far, and the position in calls of the
\* call it awaits (0 once that call has returned).
Handler(kind, arg, snap, todo) ==
  [kind |-> kind, arg |-> arg, snap |-> snap, todo |-> todo, passed |-> {},
   made |-> <<>>, call |-> 0]
NoHandler == [none |-> TRUE]

\* the handler h awaits the call that this step appends, made on the object e
Awaiting(h, e) ==
  [h EXCEPT !.made = Append(@, e), !.call = Len(calls) + 1]

\* the object createEnvironment(k) constructs in this step
Created(k) == <<k, Len(instances[k]) + 1>>

\* what a step hands back to its caller: the value of a call that returns at
\* once, or the resolution of a handler's promise
Return(op, key, value, h) ==
  <<[op |-> op, key |-> key, value |-> value, task |-> h]>>

\* RubyEnvironmentManager.activate: the keys it creates environments for
ActivationKeysWithDefault == <<DefaultKey>> \o folders
ActivationKeys == IF Len(folders) = 0 THEN <<DefaultKey>> ELSE folders

\* RubyEnvironmentManager.activate, up to its first await
Activate ==
  /\ Len(tasks) < MaxHandlers
  /\ CreateEnvironment(ActivationKeys[1])
  /\ tasks' = Append(tasks,
                     Awaiting(Handler("activate", Undefined,
                                      Range(ActivationKeys),
                                      Tail(ActivationKeys)),
                              Created(ActivationKeys[1])))
  /\ returned' = <<>>
  /\ UNCHANGED <<folders, resolved, discarded>>

\* RubyEnvironmentManager.activateWorkspace, up to its first await; with an
\* environment in the map it returns at once
ActivateWorkspaceAll(w) == Activate
ActivateWorkspaceAlways(w) ==
  /\ Len(tasks) < MaxHandlers
  /\ CreateEnvironment(KeyOf(w))
  /\ tasks' = Append(tasks,
                     Awaiting(Handler("activateWorkspace", KeyOf(w),
                                      {KeyOf(w)}, <<>>),
                              Created(KeyOf(w))))
  /\ discarded' = discarded \ {KeyOf(w)}
  /\ returned' = <<>>
  /\ UNCHANGED <<folders, resolved>>
ActivateWorkspace(w) ==
  IF environments[KeyOf(w)] # 0
    THEN /\ returned' = Return("activateWorkspace", KeyOf(w), Void, NoHandler)
         /\ probes' = <<>>
         /\ events' = <<>>
         /\ resumed' = <<>>
         /\ discarded' = discarded \ {KeyOf(w)}
         /\ UNCHANGED <<workspaceState, config, environments, instances,
                        calls, folders, tasks, resolved, codecVars>>
    ELSE /\ Len(tasks) < MaxHandlers
         /\ RegisterEnvironment(KeyOf(w))
         /\ tasks' = Append(tasks,
                            Awaiting(Handler("activateWorkspace", KeyOf(w),
                                             {KeyOf(w)}, <<>>),
                                     Created(KeyOf(w))))
         /\ discarded' = discarded \ {KeyOf(w)}
         /\ returned' = <<>>
         /\ UNCHANGED <<folders, resolved>>

\* RubyEnvironmentManager.getRuby, called by a user of the API
GetRubyCallActivates(w) == ActivateWorkspaceAlways(w)
GetRubyCall(w) ==
  /\ returned' = Return("getRuby", KeyOf(w), ManagerGetRuby(KeyOf(w)),
                        NoHandler)
  /\ probes' = <<>>
  /\ events' = <<>>
  /\ resumed' = <<>>
  /\ UNCHANGED <<workspaceState, config, environments, instances, calls,
                 folders, tasks, resolved, discarded, codecVars>>

\* environment.updateRubyDefinition() called by a watcher on the object e, up
\* to its first await
UpdateRubyDefinition(e, origin) ==
  /\ Len(calls) < MaxInFlight
  /\ LET c == StartedCall(e, origin)
     IN /\ calls' = Append(calls, c)
        /\ probes' = ProbesOf(c)
  /\ events' = <<>>
  /\ resumed' = <<>>
  /\ UNCHANGED <<workspaceState, config, environments, instances, codecVars>>

\* the map entries the iterator of a configuration handler has not passed. A
\* Map iterates in insertion order and takes in the entries set while it
\* runs; the insertion order is not kept here, so any entry not yet passed
\* can be the next.
Unpassed(h) == Registered \ h.passed

\* the configWatcher callback for a change of the rubyPath setting of the
\* scope k to p (affectsConfiguration("rubyEnvironments") is true), up to its
\* first await. The callback reads the configuration as changed.
ConfigChangeFirstOnly(k, p) ==
  /\ p # config[k]
  /\ config' = [config EXCEPT ![k] = p]
  /\ UNCHANGED <<workspaceState, environments, instances, folders, resolved,
                 discarded, codecVars>>
  /\ events' = <<>>
  /\ resumed' = <<>>
  /\ returned' = <<>>
  /\ IF Registered = {}
       THEN /\ probes' = <<>>
            /\ UNCHANGED <<calls, tasks>>
       ELSE /\ Len(calls) < MaxInFlight
            /\ Len(tasks) < MaxHandlers
            /\ \E first \in Registered :
                 LET e == <<first, environments[first]>>
                     c == StartedCall(e, "config")'
                     h == Awaiting(Handler("config", Undefined,
                                           RegisteredObjects, <<>>), e)
                 IN /\ calls' = Append(calls, c)
                    /\ probes' = ProbesOf(c)
                    /\ tasks' = Append(tasks,
                                       [h EXCEPT !.passed = Registered])
ConfigChange(k, p) ==
  /\ p # config[k]
  /\ config' = [config EXCEPT ![k] = p]
  /\ UNCHANGED <<workspaceState, environments, instances, folders, resolved,
                 discarded, codecVars>>
  /\ events' = <<>>
  /\ resumed' = <<>>
  /\ returned' = <<>>
  /\ IF Registered = {}
       THEN /\ probes' = <<>>
            /\ UNCHANGED <<calls, tasks>>
       ELSE /\ Len(calls) < MaxInFlight
            /\ Len(tasks) < MaxHandlers
            /\ \E first \in Registered :
                 LET e == <<first, environments[first]>>
                     c == StartedCall(e, "config")'
                     h == Awaiting(Handler("config", Undefined,
                                           RegisteredObjects, <<>>), e)
                 IN /\ calls' = Append(calls, c)
                    /\ probes' = ProbesOf(c)
                    /\ tasks' = Append(tasks, [h EXCEPT !.passed = {first}])

\* the configWatcher callback for a change that does not affect the
\* rubyEnvironments section
OtherConfigChange ==
  /\ returned' = Return("configWatcher", Undefined, Void, NoHandler)
  /\ probes' = <<>>
  /\ events' = <<>>
  /\ resumed' = <<>>
  /\ UNCHANGED <<workspaceState, config, environments, instances, calls,
                 folders, tasks, resolved, discarded, codecVars>>

\* the workspaceFoldersWatcher callback for an event that removes the folders
\* of removed and adds those of added, up to its first await: the removed
\* keys leave the map, then the environment of the first added folder is
\* created
WorkspaceFoldersChange(removed, added) ==
  LET Stays(k) == k \notin removed
      kept == [k \in Keys |-> IF k \in removed THEN 0 ELSE environments[k]]
      others == [t \in 1..Len(tasks) |->
                   [tasks[t] EXCEPT !.passed = @ \ removed]]
  IN /\ folders' = SelectSeq(folders, Stays) \o added
     /\ discarded' = (discarded \cup removed) \ Range(added)
     /\ events' = <<>>
     /\ resumed' = <<>>
     /\ returned' = <<>>
     /\ UNCHANGED <<workspaceState, config, resolved, codecVars>>
     /\ IF added = <<>>
          THEN /\ environments' = kept
               /\ tasks' = others
               /\ probes' = <<>>
               /\ UNCHANGED <<instances, calls>>
          ELSE LET k == added[1]
                   c == StartedCall(Created(k), "activate")
               IN /\ Objects < MaxObjects
                  /\ Len(calls) < MaxInFlight
                  /\ Len(tasks) < MaxHandlers
                  /\ instances' = [instances EXCEPT
                                     ![k] = Append(@, NewInstance)]
                  /\ environments' = [kept EXCEPT ![k] = Created(k)[2]]
                  /\ calls' = Append(calls, c)
                  /\ probes' = ProbesOf(c)
                  /\ tasks' = Append(others,
                                     Awaiting(Handler("folders", Undefined,
                                                      Range(added),
                                                      Tail(added)),
                                              Created(k)))

\* a handler resumes after the call it awaited has returned: the next turn of
\* its loop, up to the next await, or its return
HandlerStep(t) ==
  LET h == tasks[t]
  IN /\ h.call = 0
     /\ UNCHANGED <<folders, resolved, discarded>>
     /\ IF h.kind \in {"activate", "folders"} /\ h.todo # <<>>
          THEN /\ CreateEnvironment(Head(h.todo))
               /\ tasks' = [tasks EXCEPT
                              ![t] = Awaiting([h EXCEPT !.todo = Tail(@)],
                                              Created(Head(h.todo)))]
               /\ returned' = <<>>
        ELSE IF h.kind = "config" /\ Unpassed(h) # {}
          THEN /\ \E next \in Unpassed(h) :
                    /\ UpdateRubyDefinition(<<next, environments[next]>>,
                                            "config")
                    /\ tasks' = [tasks EXCEPT
                                   ![t] = Awaiting(
                                            [h EXCEPT !.passed =
                                                        @ \cup {next}],
                                            <<next, environments[next]>>)]
               /\ returned' = <<>>
        ELSE /\ tasks' = RemoveAt(tasks, t)
             /\ returned' = Return(h.kind, h.arg, Void, h)
             /\ probes' = <<>>
             /\ events' = <<>>
             /\ resumed' = <<>>
             /\ UNCHANGED <<workspaceState, config, environments, instances,
                            calls, codecVars>>

\* the handlers once the call at position i of calls has returned
AfterReturn(ts, i) ==
  [t \in 1..Len(ts) |->
     [ts[t] EXCEPT !.call = IF @ = i THEN 0 ELSE IF @ > i THEN @ - 1 ELSE @]]

\* the call at position i returns to the handler that awaits it
ReturnTo(i) ==
  /\ tasks' = AfterReturn(tasks, i)
  /\ resolved' = resolved \cup {calls[i].env}
  /\ returned' = <<>>
  /\ UNCHANGED <<folders, discarded>>

\* what asyncExec settles with while a handler awaits
AwaitedResults == {Rejected, Resolved(TextA)}

\* a frame with a version and nothing else: gemPath is undefined
TextOneField == <<"FRAME", "a", "FRAME">>

\* what asyncExec settles with when probes fail: the invocation throws, the
\* output has no frame, the frame lacks the gem-path field, or all is well
FailingResults ==
  {Rejected, Resolved(TextNoFrame), Resolved(TextOneField)}
ProbeOutcomes == FailingResults \cup {Resolved(TextA)}

AwaitedFinishNoPath(i) == FinishNoPath(i) /\ ReturnTo(i)
AwaitedFinishProbe(i, r) == FinishProbe(i, r) /\ ReturnTo(i)

\* The selectRuby command. Its dialogs only display what they read of the
\* state, so the command is taken from its start to the end of its last
\* dialog: the folder picked when several are open (undefined when that pick
\* is dismissed), the option picked (undefined when dismissed) and the path
\* the file dialog or the input box gave (undefined when dismissed; the input
\* box accepts no blank text).
BrowsedPaths == {"/browsed/ruby"}
Options == {Undefined, "browse", "manual"}
Answers(option) ==
  IF option = "browse" THEN {Undefined} \cup BrowsedPaths
  ELSE IF option = "manual" THEN {Undefined} \cup UserPaths
  ELSE {Undefined}
Picks == IF Len(folders) > 1 THEN {Undefined} \cup Range(folders)
         ELSE {Undefined}

\* RubyEnvironmentManager.selectRuby: the workspace the command is about
TargetWorkspace(pick) ==
  IF Len(folders) > 1 THEN pick
  ELSE IF Len(folders) = 1 THEN folders[1]
  ELSE Undefined

\* where the command stops without a path, "" when it goes on
Cancelled(pick, option, newPath) ==
  IF Len(folders) > 1 /\ pick = Undefined THEN "folder"
  ELSE IF environments[KeyOf(TargetWorkspace(pick))] = 0 THEN "none"
  ELSE IF option = Undefined THEN "option"
  ELSE IF Falsy(newPath) THEN option
  ELSE ""

\* RubyEnvironmentManager.selectRuby and RubyEnvironment.selectRuby, up to
\* the await of workspaceState.update
SelectRubyCommandUnchecked(pick, option, newPath) ==
  IF Cancelled(pick, option, newPath) \in {"folder", "none", "option"}
    THEN /\ returned' = Return("selectRuby", KeyOf(TargetWorkspace(pick)),
                               [cancelled |->
                                  Cancelled(pick, option, newPath)],
                               NoHandler)
         /\ probes' = <<>>
         /\ events' = <<>>
         /\ resumed' = <<>>
         /\ UNCHANGED <<workspaceState, config, environments, instances,
                        calls, folders, tasks, resolved, discarded,
                        codecVars>>
    ELSE /\ SelectRubyStore(KeyOf(TargetWorkspace(pick)), newPath)
         /\ returned' = <<>>
         /\ UNCHANGED <<folders, tasks, resolved, discarded>>
SelectRubyCommand(pick, option, newPath) ==
  IF Cancelled(pick, option, newPath) # ""
    THEN /\ returned' = Return("selectRuby", KeyOf(TargetWorkspace(pick)),
                               [cancelled |->
                                  Cancelled(pick, option, newPath)],
                               NoHandler)
         /\ probes' = <<>>
         /\ events' = <<>>
         /\ resumed' = <<>>
         /\ UNCHANGED <<workspaceState, config, environments, instances,
                        calls, folders, tasks, resolved, discarded,
                        codecVars>>
    ELSE /\ SelectRubyStore(KeyOf(TargetWorkspace(pick)), newPath)
         /\ returned' = <<>>
         /\ UNCHANGED <<folders, tasks, resolved, discarded>>

\* RubyEnvironment.selectRuby resumes after workspaceState.update
SelectRubyResumes(i) ==
  /\ SelectRubyUpdate(i)
  /\ returned' = <<>>
  /\ UNCHANGED <<folders, tasks, resolved, discarded>>

----------------------------------------------------------------------------
(* RubyStatus *)

\* the language status item as the constructor leaves it
NewItem ==
  [text |-> UndefText, detail |-> Undefined, severity |-> "Information"]

\* ` (${availableJITs.join(", ")})`, or nothing for an empty list
JitStatus(jits) ==
  IF Len(jits) > 0
    THEN <<" (">> \o Join([i \in 1..Len(jits) |-> <<jits[i]>>], ", ")
         \o <<")">>
    ELSE <<>>

\* rubyDefinition.rubyVersion || "unknown"
VersionOrUnknown(v) == IF v = <<>> \/ v = UndefText THEN <<"unknown">> ELSE v

\* RubyStatus.refresh
RefreshKeepsSeverity(it, d) ==
  IF d = NullDef
    THEN [text |-> <<"Ruby: Not detected">>,
          detail |-> "No Ruby environment detected",
          severity |-> "Warning"]
  ELSE IF d.error
    THEN [text |-> <<"Ruby: Error">>,
          detail |-> "Error detecting Ruby environment",
          severity |-> "Error"]
  ELSE [it EXCEPT
          !.text = <<"Ruby ">> \o VersionOrUnknown(d.rubyVersion)
                   \o JitStatus(d.availableJITs)]
Refresh(it, d) ==
  IF d = NullDef
    THEN [text |-> <<"Ruby: Not detected">>,
          detail |-> "No Ruby environment detected",
          severity |-> "Warning"]
  ELSE IF d.error
    THEN [text |-> <<"Ruby: Error">>,
          detail |-> "Error detecting Ruby environment",
          severity |-> "Error"]
  ELSE [it EXCEPT
          !.text = <<"Ruby ">> \o VersionOrUnknown(d.rubyVersion)
                   \o JitStatus(d.availableJITs),
          !.severity = "Information"]

\* the definitions an event can carry
StatusVersions == {<<>>, <<"3.3.0">>, <<"3.4.1">>}
StatusJITs == {<<>>, <<"YJIT">>, <<"ZJIT">>, <<"YJIT", "ZJIT">>}
StatusDefinitions ==
  {NullDef, ErrorDef}
  \cup {[error |-> FALSE, rubyVersion |-> v, gemPath |-> <<<<"a">>>>,
         availableJITs |-> j, env |-> <<>>] :
          v \in StatusVersions, j \in StatusJITs}
StatusWorkspaces == IF folders = <<>> THEN {Undefined} ELSE Range(folders)

\* the listener that RubyStatus subscribes: an event is fired on the
\* emitter and the item is refreshed with its definition
StatusOnChange(workspace, ruby) ==
  /\ events' = <<[workspace |-> workspace, ruby |-> ruby]>>
  /\ item' = Refresh(item, ruby)
  /\ probes' = <<>>
  /\ resumed' = <<>>
  /\ returned' = <<>>
  /\ UNCHANGED <<workspaceState, config, environments, instances, calls,
                 folders, tasks, resolved, discarded, heap, host,
                 codecVars>>

----------------------------------------------------------------------------
(* Definitions as objects *)

\* The definitions are JavaScript objects: cells lists the objects that
\* parseActivationResult and the catch block have constructed, and
\* current[k][g] is the cell that the currentRubyDefinition of the g-th
\* resolver of k refers to, 0 for null.
NoHeap == [cells |-> <<>>, current |-> [k \in Keys |-> <<>>]]

\* new RubyEnvironment(...): currentRubyDefinition = null
HeapNew(h, k) == [h EXCEPT !.current[k] = Append(@, 0)]

\* this.currentRubyDefinition = d, where d is null or an object that the
\* resolution has just constructed
HeapAssignInPlace(h, e, d) ==
  IF d = NullDef THEN [h EXCEPT !.current[e[1]][e[2]] = 0]
  ELSE IF h.current[e[1]][e[2]] # 0
    THEN [h EXCEPT !.cells[h.current[e[1]][e[2]]] = d]
  ELSE [cells |-> Append(h.cells, d),
        current |-> [h.current EXCEPT ![e[1]][e[2]] = Len(h.cells) + 1]]
HeapAssign(h, e, d) ==
  IF d = NullDef THEN [h EXCEPT !.current[e[1]][e[2]] = 0]
  ELSE [cells |-> Append(h.cells, d),
        current |-> [h.current EXCEPT ![e[1]][e[2]] = Len(h.cells) + 1]]

HeapUnchanged ==
  UNCHANGED <<folders, tasks, resolved, discarded, returned, item, host>>

HeapRegister(k) ==
  /\ RegisterEnvironment(k)
  /\ heap' = HeapNew(heap, k)
  /\ HeapUnchanged

HeapSelectRubyStore(k, p) ==
  /\ SelectRubyStore(k, p)
  /\ UNCHANGED heap
  /\ HeapUnchanged

HeapSelectRubyUpdate(i) ==
  /\ SelectRubyUpdate(i)
  /\ UNCHANGED heap
  /\ HeapUnchanged

HeapFinishNoPath(i) ==
  /\ FinishNoPath(i)
  /\ heap' = HeapAssign(heap, calls[i].env, NoPathDefinition)
  /\ HeapUnchanged

HeapFinishProbe(i, r) ==
  /\ Len(heap.cells) < MaxDefinitions
  /\ FinishProbe(i, r)
  /\ heap' = HeapAssign(heap, calls[i].env, GetRubyDefinitionFromConfig(r))
  /\ HeapUnchanged

----------------------------------------------------------------------------
(* The decoder on its own *)

Pending == [pending |-> TRUE]
NoFields == [none |-> TRUE]

RawTokens == {ACTIVATION_SEPARATOR, FIELD_SEPARATOR, VALUE_SEPARATOR,
              ",", "a", "b"}
RawTexts == UNION {[1..n -> RawTokens] : n \in 0..MaxLen}

BoundedSeq(S, n) == UNION {[1..m -> S] : m \in 0..n}

Words == {<<>>, <<"a">>, <<"b">>}           \* texts without a separator
JitFlags == {<<>>, <<"true">>, <<"false">>}
Frames ==
  [version : Words, paths : BoundedSeq(Words, MaxPaths), jit : JitFlags,
   entries : BoundedSeq(Words \X Words, MaxEntries)]

NonEmptyWords == Words \ {<<>>}

\* Frames whose environment values may hold the key/value separator
SeparatorValues == BoundedSeq({"a", VALUE_SEPARATOR}, MaxValueLen)
ValueFrames ==
  [version : {<<"a">>}, paths : {<<<<"a">>>>}, jit : {<<>>},
   entries : BoundedSeq(NonEmptyWords \X SeparatorValues, MaxEntries)]

\* a value whose bytes are not valid UTF-8
InvalidValue == <<"\\xFF">>

\* utf_8_value.valid_encoding?, on an entry of ENV
ValidEncoding(entry) == entry[2] # InvalidValue

\* The Ruby runtimes that run activation.rb: RUBY_VERSION, Gem.path, whether
\* RubyVM::YJIT and RubyVM::ZJIT are defined, and the entries of ENV
Runtimes ==
  [version : NonEmptyWords,
   paths : BoundedSeq(NonEmptyWords, MaxPaths) \ {<<>>},
   yjit : BOOLEAN, zjit : BOOLEAN,
   entries : BoundedSeq(NonEmptyWords \X (Words \cup {InvalidValue}),
                        MaxEntries)]

\* Ruby's to_s of true and false, as Array#join applies it
ToS(b) == IF b THEN <<"true">> ELSE <<"false">>

\* activation.rb: what the script prints to stderr. The entries whose
\* values are not valid UTF-8 are left out.
ActivationRb(rt) ==
  LET env == SelectSeq(rt.entries, ValidEncoding)
  IN <<ACTIVATION_SEPARATOR>>
     \o Join(<<rt.version, Join(rt.paths, ","), ToS(rt.yjit), ToS(rt.zjit)>>
             \o [i \in 1..Len(env) |->
                   env[i][1] \o <<VALUE_SEPARATOR>> \o env[i][2]],
             FIELD_SEPARATOR)
     \o <<ACTIVATION_SEPARATOR>>

Decode ==
  /\ decoded = Pending
  /\ decoded' = ParseActivationResult(stderr)
  /\ UNCHANGED <<stderr, fields, envVars, mgrVars>>

----------------------------------------------------------------------------
(* Specifications *)

EnvInit ==
  /\ workspaceState \in [StorageKeys -> StoredPaths]
  /\ workspaceState[GetStorageKey(LastKey)] = Undefined
  /\ config \in [Keys -> ConfigPaths]
  /\ config[LastKey] = "/config/ruby"
  /\ environments = [k \in Keys |-> 0]
  /\ instances = [k \in Keys |-> <<>>]
  /\ calls = <<>>
  /\ probes = <<>>
  /\ events = <<>>
  /\ resumed = <<>>

MgrIdle ==
  /\ folders = <<>>
  /\ tasks = <<>>
  /\ resolved = {}
  /\ discarded = {}
  /\ returned = <<>>
  /\ item = NewItem
  /\ heap = NoHeap
  /\ host = UnixHost

Init ==
  /\ EnvInit
  /\ MgrIdle
  /\ stderr = <<>>
  /\ fields = NoFields
  /\ decoded = Pending

\* The resolvers on their own: each context gets its resolver once, by the
\* registering branch of activateWorkspace, and the handlers that await the
\* calls are left out.
Next ==
  \/ \E k \in Keys : RegisterEnvironment(k) /\ UNCHANGED mgrVars
  \/ \E k \in Keys, p \in UserPaths :
       SelectRubyStore(k, p) /\ UNCHANGED mgrVars
  \/ \E id \in 1..Len(calls) : SelectRubyUpdate(id) /\ UNCHANGED mgrVars
  \/ \E id \in 1..Len(calls) : FinishNoPath(id) /\ UNCHANGED mgrVars
  \/ \E id \in 1..Len(calls), r \in ExecResults :
       FinishProbe(id, r) /\ UNCHANGED mgrVars

Spec == Init /\ [][Next]_vars

\* The registry with its watchers: the host has some folders open, no manual
\* path is stored, and the rubyPath setting is set for the folders only.
MgrStart ==
  /\ workspaceState = [s \in StorageKeys |-> Undefined]
  /\ config = [k \in Keys |-> IF IsDefault(k) THEN "" ELSE "/config/ruby"]
  /\ environments = [k \in Keys |-> 0]
  /\ instances = [k \in Keys |-> <<>>]
  /\ calls = <<>>
  /\ probes = <<>>
  /\ events = <<>>
  /\ resumed = <<>>
  /\ folders \in {<<>>, <<"file:///w1">>, <<"file:///w1", "file:///w2">>}
  /\ tasks = <<>>
  /\ resolved = {}
  /\ discarded = {}
  /\ returned = <<>>
  /\ item = NewItem
  /\ heap = NoHeap
  /\ stderr = <<>>
  /\ fields = NoFields
  /\ decoded = Pending

MgrInit == MgrStart /\ host = UnixHost

\* activate() as the extension calls it when it loads
ActivateOnLoad ==
  /\ Objects = 0
  /\ Activate

\* The API of the manager: activation and queries, no watcher fires.
ActivationNext ==
  \/ Activate /\ UNCHANGED <<item, heap, host>>
  \/ \E w \in Workspaces : ActivateWorkspace(w) /\ UNCHANGED <<item, heap, host>>
  \/ \E w \in Workspaces : GetRubyCall(w) /\ UNCHANGED <<item, heap, host>>
  \/ \E t \in 1..Len(tasks) : HandlerStep(t) /\ UNCHANGED <<item, heap, host>>
  \/ \E id \in 1..Len(calls) : AwaitedFinishNoPath(id) /\ UNCHANGED <<item, heap, host>>
  \/ \E id \in 1..Len(calls), r \in AwaitedResults :
       AwaitedFinishProbe(id, r) /\ UNCHANGED <<item, heap, host>>

ActivationSpec == MgrInit /\ [][ActivationNext]_vars

\* The configuration watcher, after the activation on load, while folders
\* are closed.
ConfigNext ==
  \/ ActivateOnLoad /\ UNCHANGED <<item, heap, host>>
  \/ \E k \in ChangedScopes, p \in ConfigPaths :
       ConfigChange(k, p) /\ UNCHANGED <<item, heap, host>>
  \/ OtherConfigChange /\ UNCHANGED <<item, heap, host>>
  \/ \E removed \in SUBSET Range(folders) :
       /\ removed # {}
       /\ WorkspaceFoldersChange(removed, <<>>) /\ UNCHANGED <<item, heap, host>>
  \/ \E t \in 1..Len(tasks) : HandlerStep(t) /\ UNCHANGED <<item, heap, host>>
  \/ \E id \in 1..Len(calls) : AwaitedFinishNoPath(id) /\ UNCHANGED <<item, heap, host>>
  \/ \E id \in 1..Len(calls), r \in AwaitedResults :
       AwaitedFinishProbe(id, r) /\ UNCHANGED <<item, heap, host>>

ConfigSpec == MgrInit /\ [][ConfigNext]_vars

\* The workspace-folder watcher, with the activation on load and
\* activateWorkspace.
FoldersNext ==
  \/ ActivateOnLoad /\ UNCHANGED <<item, heap, host>>
  \/ \E w \in Workspaces : ActivateWorkspace(w) /\ UNCHANGED <<item, heap, host>>
  \/ \E removed \in SUBSET Range(folders) :
       \E addedSet \in SUBSET (FolderKeys \ Range(folders)) :
         \E added \in Orderings(addedSet) :
           /\ removed \cup addedSet # {}
           /\ WorkspaceFoldersChange(removed, added) /\ UNCHANGED <<item, heap, host>>
  \/ \E t \in 1..Len(tasks) : HandlerStep(t) /\ UNCHANGED <<item, heap, host>>
  \/ \E id \in 1..Len(calls) : AwaitedFinishNoPath(id) /\ UNCHANGED <<item, heap, host>>
  \/ \E id \in 1..Len(calls), r \in AwaitedResults :
       AwaitedFinishProbe(id, r) /\ UNCHANGED <<item, heap, host>>

FoldersSpec == MgrInit /\ [][FoldersNext]_vars

\* The selectRuby command, after the activation on load.
SelectNext ==
  \/ ActivateOnLoad /\ UNCHANGED <<item, heap, host>>
  \/ \E pick \in Picks, option \in Options :
       \E newPath \in Answers(option) :
         SelectRubyCommand(pick, option, newPath) /\ UNCHANGED <<item, heap, host>>
  \/ \E id \in 1..Len(calls) : SelectRubyResumes(id) /\ UNCHANGED <<item, heap, host>>
  \/ \E t \in 1..Len(tasks) : HandlerStep(t) /\ UNCHANGED <<item, heap, host>>
  \/ \E id \in 1..Len(calls) : AwaitedFinishNoPath(id) /\ UNCHANGED <<item, heap, host>>
  \/ \E id \in 1..Len(calls), r \in AwaitedResults :
       AwaitedFinishProbe(id, r) /\ UNCHANGED <<item, heap, host>>

SelectSpec == MgrInit /\ [][SelectNext]_vars

\* The status item, fed with events of every kind.
StatusNext ==
  \E workspace \in StatusWorkspaces, ruby \in StatusDefinitions :
    StatusOnChange(workspace, ruby)

StatusSpec == MgrInit /\ [][StatusNext]_vars

\* The resolvers with their definitions as objects.
HeapNext ==
  \/ \E k \in Keys : HeapRegister(k)
  \/ \E k \in Keys, p \in UserPaths : HeapSelectRubyStore(k, p)
  \/ \E id \in 1..Len(calls) : HeapSelectRubyUpdate(id)
  \/ \E id \in 1..Len(calls) : HeapFinishNoPath(id)
  \/ \E id \in 1..Len(calls), r \in AwaitedResults : HeapFinishProbe(id, r)

HeapInit == MgrInit /\ folders = <<>>

HeapSpec == HeapInit /\ [][HeapNext]_vars

\* Probes that fail, under the activation on load and the configuration
\* watcher.
FailureNext ==
  \/ ActivateOnLoad /\ UNCHANGED <<item, heap, host>>
  \/ \E k \in ChangedScopes, p \in ConfigPaths :
       ConfigChange(k, p) /\ UNCHANGED <<item, heap, host>>
  \/ \E t \in 1..Len(tasks) : HandlerStep(t) /\ UNCHANGED <<item, heap, host>>
  \/ \E id \in 1..Len(calls) :
       AwaitedFinishNoPath(id) /\ UNCHANGED <<item, heap, host>>
  \/ \E id \in 1..Len(calls), r \in ProbeOutcomes :
       AwaitedFinishProbe(id, r) /\ UNCHANGED <<item, heap, host>>

FailureSpec == MgrInit /\ [][FailureNext]_vars

\* The probes of the activation on load, on every host.
ShellNext ==
  \/ ActivateOnLoad /\ UNCHANGED <<item, heap, host>>
  \/ \E t \in 1..Len(tasks) : HandlerStep(t) /\ UNCHANGED <<item, heap, host>>
  \/ \E id \in 1..Len(calls) :
       AwaitedFinishNoPath(id) /\ UNCHANGED <<item, heap, host>>
  \/ \E id \in 1..Len(calls), r \in AwaitedResults :
       AwaitedFinishProbe(id, r) /\ UNCHANGED <<item, heap, host>>

ShellInit == MgrStart /\ host \in Hosts

ShellSpec == ShellInit /\ [][ShellNext]_vars

CodecInit ==
  /\ workspaceState = [s \in StorageKeys |-> Undefined]
  /\ config = [k \in Keys |-> Undefined]
  /\ environments = [k \in Keys |-> 0]
  /\ instances = [k \in Keys |-> <<>>]
  /\ calls = <<>>
  /\ probes = <<>>
  /\ events = <<>>
  /\ resumed = <<>>
  /\ MgrIdle
  /\ decoded = Pending
  /\ \/ /\ fields = NoFields
        /\ stderr \in RawTexts
     \/ /\ fields \in Frames
        /\ stderr = Encode(fields)

CodecNext == Decode

\* The decoder on the output of the activation script
ScriptInit ==
  /\ workspaceState = [s \in StorageKeys |-> Undefined]
  /\ config = [k \in Keys |-> Undefined]
  /\ environments = [k \in Keys |-> 0]
  /\ instances = [k \in Keys |-> <<>>]
  /\ calls = <<>>
  /\ probes = <<>>
  /\ events = <<>>
  /\ resumed = <<>>
  /\ MgrIdle
  /\ decoded = Pending
  /\ fields \in Runtimes
  /\ stderr = ActivationRb(fields)

ScriptSpec == ScriptInit /\ [][Decode]_vars

\* The decoder on frames whose values hold separators
ValueInit ==
  /\ workspaceState = [s \in StorageKeys |-> Undefined]
  /\ config = [k \in Keys |-> Undefined]
  /\ environments = [k \in Keys |-> 0]
  /\ instances = [k \in Keys |-> <<>>]
  /\ calls = <<>>
  /\ probes = <<>>
  /\ events = <<>>
  /\ resumed = <<>>
  /\ MgrIdle
  /\ decoded = Pending
  /\ fields \in ValueFrames
  /\ stderr = Encode(fields)

ValueSpec == ValueInit /\ [][Decode]_vars

CodecSpec == CodecInit /\ [][CodecNext]_vars

----------------------------------------------------------------------------
(* Callers of activateWorkspace *)

\* Any number of callers of activateWorkspace, for any workspace, while
\* earlier calls are still awaiting their probes.
CallersNext ==
  \/ \E w \in Workspaces :
       ActivateWorkspace(w) /\ UNCHANGED <<item, heap, host>>
  \/ \E t \in 1..Len(tasks) : HandlerStep(t) /\ UNCHANGED <<item, heap, host>>
  \/ \E id \in 1..Len(calls) :
       AwaitedFinishNoPath(id) /\ UNCHANGED <<item, heap, host>>
  \/ \E id \in 1..Len(calls), r \in AwaitedResults :
       AwaitedFinishProbe(id, r) /\ UNCHANGED <<item, heap, host>>

CallersSpec == MgrInit /\ [][CallersNext]_vars

----------------------------------------------------------------------------
(* Progress of the handlers *)

\* the workspace whose Ruby may run for ever: nothing in the probe ends a
\* child process that does not exit
HangingKey == "file:///w1"

\* The activation on load and the configuration watcher, as the event loop
\* runs them: a handler whose awaited call has returned goes on, a
\* resolution without a path resumes, and a probe returns unless it is the
\* one of the workspace whose Ruby hangs.
ProgressNext ==
  \/ ActivateOnLoad /\ UNCHANGED <<item, heap, host>>
  \/ \E k \in ChangedScopes, p \in ConfigPaths :
       ConfigChange(k, p) /\ UNCHANGED <<item, heap, host>>
  \/ \E t \in 1..Len(tasks) : HandlerStep(t) /\ UNCHANGED <<item, heap, host>>
  \/ \E id \in 1..Len(calls) :
       AwaitedFinishNoPath(id) /\ UNCHANGED <<item, heap, host>>
  \/ \E id \in 1..Len(calls), r \in ProbeOutcomes :
       AwaitedFinishProbe(id, r) /\ UNCHANGED <<item, heap, host>>

\* the probe of a workspace whose Ruby exits has settled
ExitingProbeSettles ==
  \E id \in 1..Len(calls), r \in ProbeOutcomes :
    /\ calls[id].env[1] # HangingKey
    /\ AwaitedFinishProbe(id, r)
    /\ UNCHANGED <<item, heap, host>>

ProgressFairness ==
  /\ WF_vars(\E t \in 1..Len(tasks) :
               HandlerStep(t) /\ UNCHANGED <<item, heap, host>>)
  /\ WF_vars(\E id \in 1..Len(calls) :
               AwaitedFinishNoPath(id) /\ UNCHANGED <<item, heap, host>>)
  /\ WF_vars(ExitingProbeSettles)

ProgressSpec == MgrInit /\ [][ProgressNext]_vars /\ ProgressFairness

----------------------------------------------------------------------------
(* The decoder on characters *)

\* The separators as the strings they are, character by character: the
\* frame separator begins and ends with the same character.
SeparatorPrefix ==
  <<"R", "U", "B", "Y", "_", "E", "N", "V", "I", "R", "O", "N", "M", "E", "N",
    "T", "S", "_">>
ActivationSeparatorChars ==
  SeparatorPrefix
  \o <<"A", "C", "T", "I", "V", "A", "T", "I", "O", "N", "_", "S", "E", "P",
       "A", "R", "A", "T", "O", "R">>
ValueSeparatorChars == SeparatorPrefix \o <<"V", "S">>
FieldSeparatorChars == SeparatorPrefix \o <<"F", "S">>

\* the positions of s where the string pat occurs
Occurrences(s, pat) ==
  {i \in 1..(Len(s) + 1 - Len(pat)) : SubSeq(s, i, i + Len(pat) - 1) = pat}

\* String.prototype.split with a string separator
RECURSIVE SplitChars(_, _)
SplitChars(s, pat) ==
  IF Occurrences(s, pat) = {}
    THEN <<s>>
    ELSE LET i == Min(Occurrences(s, pat))
         IN <<SubSeq(s, 1, i - 1)>>
            \o SplitChars(SubSeq(s, i + Len(pat), Len(s)), pat)

\* Array.prototype.join with a string separator
RECURSIVE JoinChars(_, _)
JoinChars(parts, pat) ==
  IF Len(parts) = 0 THEN <<>>
  ELSE IF Len(parts) = 1 THEN parts[1]
  ELSE parts[1] \o pat \o JoinChars(Tail(parts), pat)

\* new RegExp(`${SEP}([^]*)${SEP}`).exec(stderr): exec tries the start
\* positions from the left; at a start where the separator occurs the greedy
\* group gives back characters until the separator follows it, so it ends at
\* the last occurrence that begins after the first one has ended.
RegExpExecCharsAnchored(text) ==
  LET n == Len(ActivationSeparatorChars)
      occ == Occurrences(text, ActivationSeparatorChars)
      ends == {j \in occ : j >= 1 + n}
  IN IF 1 \notin occ \/ ends = {}
       THEN <<>>
       ELSE <<SubSeq(text, 1 + n, Max(ends) - 1)>>
RegExpExecChars(text) ==
  LET n == Len(ActivationSeparatorChars)
      occ == Occurrences(text, ActivationSeparatorChars)
      starts == {i \in occ : \E j \in occ : j >= i + n}
  IN IF starts = {}
       THEN <<>>
       ELSE LET i == Min(starts)
                j == Max({k \in occ : k >= i + n})
            IN <<SubSeq(text, i + n, j - 1)>>

\* RubyEnvironment.parseActivationResult on a string
ParseActivationResultChars(text) ==
  LET activationContent == RegExpExecChars(text)
      parts == SplitChars(activationContent[1], FieldSeparatorChars)
  IN IF activationContent = <<>> THEN ErrorDef
     ELSE IF Len(parts) < 2 THEN Thrown
     ELSE [error |-> FALSE, rubyVersion |-> parts[1],
           gemPath |-> SplitChars(parts[2], <<",">>),
           availableJITs |-> IF Len(parts) >= 3 /\ parts[3] # <<>>
                               THEN <<"YJIT">> ELSE <<>>,
           env |-> FromEntries([i \in 1..(Len(parts) - 3) |->
                                  SplitChars(parts[i + 3],
                                             ValueSeparatorChars)])]

\* what stands between the two separators of a frame
Payload(f) ==
  JoinChars(<<f.version, JoinChars(f.paths, <<",">>), f.jit>>
            \o [i \in 1..Len(f.entries) |->
                  f.entries[i][1] \o ValueSeparatorChars \o f.entries[i][2]],
            FieldSeparatorChars)

\* Frames, and the output around them: nothing, a warning, or a piece of the
\* frame separator that lacks up to MaxCut characters at one end
MaxCut == 2
CharFrames ==
  [version : {<<"3">>}, paths : {<<<<"g">>>>}, jit : {<<>>, <<"t">>},
   entries : {<<>>, <<<<<<"k">>, <<"v">>>>>>}]
Noises ==
  {<<>>, <<"w", "a", "r", "n">>}
  \cup {SubSeq(ActivationSeparatorChars, 1,
               Len(ActivationSeparatorChars) - n) : n \in 1..MaxCut}
  \cup {SubSeq(ActivationSeparatorChars, n + 1,
               Len(ActivationSeparatorChars)) : n \in 1..MaxCut}

NoisyText(noise1, payload, noise2) ==
  noise1 \o ActivationSeparatorChars \o payload \o ActivationSeparatorChars
  \o noise2

DecodeChars ==
  /\ decoded = Pending
  /\ decoded' = ParseActivationResultChars(stderr)
  /\ UNCHANGED <<stderr, fields, envVars, mgrVars>>

\* The decoder on a frame with output around it
NoiseInit ==
  /\ workspaceState = [s \in StorageKeys |-> Undefined]
  /\ config = [k \in Keys |-> Undefined]
  /\ environments = [k \in Keys |-> 0]
  /\ instances = [k \in Keys |-> <<>>]
  /\ calls = <<>>
  /\ probes = <<>>
  /\ events = <<>>
  /\ resumed = <<>>
  /\ MgrIdle
  /\ decoded = Pending
  /\ fields \in [noise1 : Noises, frame : CharFrames, noise2 : Noises]
  /\ stderr = NoisyText(fields.noise1, Payload(fields.frame), fields.noise2)

NoiseSpec == NoiseInit /\ [][DecodeChars]_vars

----------------------------------------------------------------------------
(* Vocabulary of the properties *)

Cur(e) == instances[e[1]][e[2]].currentRubyDefinition
CurAfter(e) == instances'[e[1]][e[2]].currentRubyDefinition

Instances == UNION {{<<k, g>> : g \in 1..Len(instances[k])} : k \in Keys}

StoredPath(k) == workspaceState[GetStorageKey(k)]
NothingConfigured(k) == Falsy(StoredPath(k)) /\ Falsy(config[k])

\* the call at position i returns in this step
Returns(i) == i \in 1..Len(calls) /\ calls' = RemoveAt(calls, i)

\* this step starts an updateRubyDefinition() call on an object of key k; the
\* started call is then StartedIn(k)
StartsFor(k) ==
  \/ CreateEnvironment(k)
  \/ \E i \in 1..Len(calls) : calls[i].env[1] = k /\ SelectRubyUpdate(i)
StartedIn(k) ==
  IF CreateEnvironment(k) THEN calls'[Len(calls')]
  ELSE calls'[CHOOSE i \in 1..Len(calls) :
                calls[i].env[1] = k /\ SelectRubyUpdate(i)]

\* this step belongs to a selectRuby() on the resolver of key k
SelectRubyStep(k) ==
  \/ \E p \in UserPaths : SelectRubyStore(k, p)
  \/ \E i \in 1..Len(calls) :
       /\ calls[i].origin = "select"
       /\ calls[i].env[1] = k
       /\ \/ SelectRubyUpdate(i)
          \/ FinishNoPath(i)
          \/ \E r \in ExecResults : FinishProbe(i, r)

NoRaisedCall == \A i \in 1..Len(calls) : calls[i].state # "raised"

----------------------------------------------------------------------------
(* C1: when neither a stored path nor the rubyPath setting is there, the    *)
(* resolution starts no probe, and when it resumes getRuby() is null and    *)
(* exactly one ChangeEvent, with ruby null, is fired.                       *)

C1_NoPathStep ==
  /\ \A k \in Keys :
       (NothingConfigured(k) /\ StartsFor(k)) =>
         (StartedIn(k).state = "nopath" /\ probes' = <<>>)
  /\ \A i \in 1..Len(calls) :
       (calls[i].state = "nopath" /\ FinishNoPath(i)) =>
         /\ Returns(i)
         /\ CurAfter(calls[i].env) = NullDef
         /\ probes' = <<>>
         /\ events' = <<[workspace |-> WorkspaceFolder(calls[i].env[1]),
                         ruby |-> NullDef]>>

C1_NotConfiguredIsNull == [][C1_NoPathStep]_vars

C1_Witness ==
  \E k \in Keys :
    /\ NothingConfigured(k)
    /\ environments[k] # 0
    /\ resumed # <<>>
    /\ resumed[1].call.state = "nopath"
    /\ resumed[1].call.env = <<k, environments[k]>>
    /\ ManagerGetRuby(k) = NullDef
    /\ events = <<[workspace |-> WorkspaceFolder(k), ruby |-> NullDef]>>

(* C2: a step in which an updateRubyDefinition() call returns fires exactly *)
(* one ChangeEvent, which carries the resolver's workspace folder           *)
(* (undefined for the default context) and the value getRuby() has after    *)
(* the step; no other step fires an event.                                  *)

C2_ReturnStep ==
  /\ \A i \in 1..Len(calls) :
       Returns(i) =>
         events' = <<[workspace |-> WorkspaceFolder(calls[i].env[1]),
                      ruby |-> CurAfter(calls[i].env)]>>
  /\ (\A i \in 1..Len(calls) : ~Returns(i)) => events' = <<>>

C2_OneEventPerUpdate == [][C2_ReturnStep]_vars

C2_Witness ==
  /\ resumed # <<>>
  /\ resumed[1].result = Resolved(TextA)
  /\ resumed[1].call.env[1] # DefaultKey
  /\ Len(events) = 1
  /\ events[1].workspace = resumed[1].call.env[1]
  /\ events[1].ruby = Cur(resumed[1].call.env)
  /\ events[1].ruby # ErrorDef
  /\ environments[DefaultKey] # 0
  /\ ManagerGetRuby(DefaultKey) = ErrorDef

(* C3: when asyncExec rejects, the call returns normally, getRuby() of the  *)
(* resolver is the error definition, and no call is ever left raised.       *)

C3_RejectedStep ==
  /\ \A i \in 1..Len(calls) :
       (calls[i].state = "probing" /\ FinishProbe(i, Rejected)) =>
         (Returns(i) /\ CurAfter(calls[i].env) = ErrorDef)
  /\ \A i \in 1..Len(calls') : calls'[i].state # "raised"

C3_ProbeFailureAbsorbed == [][C3_RejectedStep]_vars

C3_Witness ==
  /\ resumed # <<>>
  /\ resumed[1].result = Rejected
  /\ ~Falsy(resumed[1].call.path)
  /\ Cur(resumed[1].call.env) = ErrorDef
  /\ NoRaisedCall

(* C4: a text with fewer than two frame separators decodes to the error     *)
(* definition.                                                              *)

C4_NoFrameIsError ==
  (decoded # Pending
   /\ Cardinality(Positions(stderr, ACTIVATION_SEPARATOR)) < 2)
  => decoded = ErrorDef

C4_Witness ==
  /\ decoded = ErrorDef
  /\ Cardinality(Positions(stderr, ACTIVATION_SEPARATOR)) = 1
  /\ Positions(stderr, FIELD_SEPARATOR) # {}
  /\ stderr[1] = ACTIVATION_SEPARATOR

(* Frames built from fields, and what their decoding should give *)

Names(f) == {f.entries[i][1] : i \in 1..Len(f.entries)}
IsMapping(f) == Cardinality(Names(f)) = Len(f.entries)
LastEntry(f, n) ==
  f.entries[Max({i \in 1..Len(f.entries) : f.entries[i][1] = n})]
FlagEnabled(jit) == jit # <<>>

RoundTrip(f, d) ==
  /\ d.error = FALSE
  /\ d.rubyVersion = f.version
  /\ d.gemPath = f.paths
  /\ d.availableJITs = (IF FlagEnabled(f.jit) THEN <<"YJIT">> ELSE <<>>)
  /\ DOMAIN d.env = Names(f)
  /\ \A i \in 1..Len(f.entries) : d.env[f.entries[i][1]] = f.entries[i][2]

(* C5 as stated: every frame built from a version, a list of gem paths      *)
(* (the empty list too), a flag and an environment mapping decodes to       *)
(* exactly these.                                                           *)

C5_RoundTripAnyPathList ==
  (fields # NoFields /\ decoded # Pending /\ IsMapping(fields))
  => RoundTrip(fields, decoded)

(* C5, amended: the round trip holds for every frame whose list of gem      *)
(* paths is not empty; YJIT is decoded iff the flag field is a non-empty    *)
(* text.                                                                    *)

C5_RoundTrip ==
  (fields # NoFields /\ decoded # Pending /\ IsMapping(fields)
   /\ fields.paths # <<>>)
  => RoundTrip(fields, decoded)

C5_Witness ==
  /\ fields # NoFields
  /\ decoded # Pending
  /\ Len(fields.paths) = 2
  /\ fields.jit = <<"true">>
  /\ Len(fields.entries) = 2
  /\ IsMapping(fields)
  /\ fields.version = <<"a">>
  /\ decoded.gemPath = fields.paths
  /\ decoded.availableJITs = <<"YJIT">>

(* C6: when a name occurs in several entries of a frame, the decoded env    *)
(* holds for it the value of the last of them, and holds each name once.    *)

C6_LastWriteWins ==
  (fields # NoFields /\ decoded # Pending /\ ~IsMapping(fields))
  => /\ decoded.error = FALSE
     /\ DOMAIN decoded.env = Names(fields)
     /\ \A n \in Names(fields) : decoded.env[n] = LastEntry(fields, n)[2]

C6_Witness ==
  /\ fields # NoFields
  /\ decoded # Pending
  /\ Len(fields.entries) = 2
  /\ fields.entries[1][1] = fields.entries[2][1]
  /\ fields.entries[1][2] # fields.entries[2][2]
  /\ decoded.env[fields.entries[1][1]] = fields.entries[2][2]

(* C7: no step of a selectRuby() on the resolver of a context A changes the *)
(* path stored for another context B or what getRuby returns for B, and     *)
(* none invokes asyncExec for B.                                            *)

C7_SelectStep ==
  \A a \in Keys : \A b \in Keys \ {a} :
    SelectRubyStep(a) =>
      /\ workspaceState'[GetStorageKey(b)] = workspaceState[GetStorageKey(b)]
      /\ ManagerGetRuby(b)' = ManagerGetRuby(b)
      /\ \A j \in 1..Len(probes') : probes'[j].env[1] # b

C7_SelectRubyIsolated == [][C7_SelectStep]_vars

C7_Witness ==
  \E a \in Keys : \E b \in Keys \ {a} :
    /\ resumed # <<>>
    /\ resumed[1].call.origin = "select"
    /\ resumed[1].call.env[1] = a
    /\ resumed[1].result = Rejected
    /\ StoredPath(a) = "/new/ruby"
    /\ StoredPath(b) = "/state/ruby"
    /\ environments[b] # 0
    /\ ManagerGetRuby(b) # NullDef
    /\ ManagerGetRuby(b) # ErrorDef

(* C8: a resolver whose context has a stored manual path invokes asyncExec  *)
(* with that path and its own directory as cwd, and when the probe settles  *)
(* the resolver's getRuby() is the decoding of that probe's result while    *)
(* every other resolver keeps its value.                                    *)

C8_OwnProbeStep ==
  /\ \A j \in 1..Len(probes') :
       LET k == probes'[j].env[1]
       IN ~Falsy(StoredPath(k)) =>
            /\ probes'[j].command = StoredPath(k)
            /\ probes'[j].cwd = FsPath(k)
  /\ \A i \in 1..Len(calls) : \A r \in ExecResults :
       (calls[i].state = "probing" /\ FinishProbe(i, r)) =>
         /\ CurAfter(calls[i].env) =
              (IF r.rejected \/ ParseActivationResult(r.stderr) = Thrown
                 THEN ErrorDef ELSE ParseActivationResult(r.stderr))
         /\ \A e \in Instances \ {calls[i].env} : CurAfter(e) = Cur(e)

C8_OwnProbeOnly == [][C8_OwnProbeStep]_vars

C8_Witness ==
  \E a \in Keys : \E b \in Keys \ {a} :
    /\ StoredPath(a) = "/state/ruby"
    /\ StoredPath(b) = "/new/ruby"
    /\ environments[a] # 0
    /\ environments[b] # 0
    /\ calls = <<>>
    /\ resumed # <<>>
    /\ resumed[1].call.env[1] = a
    /\ resumed[1].call.path = "/state/ruby"
    /\ resumed[1].result = Resolved(TextA)
    /\ ManagerGetRuby(a) = ParseActivationResult(TextA)
    /\ ManagerGetRuby(b) = ErrorDef

(* C9: the command of every asyncExec invocation is the path stored under   *)
(* the resolver's storage key when that is non-empty, and the rubyPath      *)
(* setting of the workspace otherwise.                                      *)

C9_StoredPathWins ==
  \A j \in 1..Len(probes) :
    LET k == probes[j].env[1]
    IN probes[j].command =
         (IF StoredPath(k) # Undefined /\ StoredPath(k) # ""
            THEN StoredPath(k) ELSE config[k])

C9_Witness ==
  \E k \in Keys :
    /\ probes # <<>>
    /\ probes[1].env[1] = k
    /\ probes[1].command = "/state/ruby"
    /\ config[k] = "/config/ruby"

(* C10 as stated: every resolution has an executable to probe, the bare     *)
(* command name when neither the manual path nor the setting is set.        *)

C10_StartStep ==
  \A k \in Keys :
    StartsFor(k) =>
      LET c == StartedIn(k)
      IN /\ ~Falsy(StoredPath(k)) => c.path = StoredPath(k)
         /\ (Falsy(StoredPath(k)) /\ ~Falsy(config[k])) => c.path = config[k]
         /\ NothingConfigured(k) => (Falsy(c.path) /\ c.state = "nopath")
         /\ (probes' = <<>>) <=> NothingConfigured(k)

----------------------------------------------------------------------------
(* Vocabulary of the properties about the manager *)

\* this step constructs one object for the key k, puts it in the map under
\* k, starts one updateRubyDefinition() call on it, and does nothing else to
\* the map, the objects or the calls
CreatesOne(k) ==
  /\ instances' = [instances EXCEPT ![k] = Append(@, NewInstance)]
  /\ environments' = [environments EXCEPT ![k] = Len(instances[k]) + 1]
  /\ Len(calls') = Len(calls) + 1
  /\ SubSeq(calls', 1, Len(calls)) = calls
  /\ calls'[Len(calls')].env = <<k, Len(instances[k]) + 1>>
  /\ calls'[Len(calls')].state \in {"nopath", "probing"}
  /\ Len(probes') <= 1
  /\ events' = <<>>

\* this step is the return of a call that the handler at position t awaits
ReturnsTo(t) ==
  /\ tasks[t].call # 0
  /\ \/ AwaitedFinishNoPath(tasks[t].call)
     \/ \E r \in AwaitedResults : AwaitedFinishProbe(tasks[t].call, r)

\* this step belongs to an activateWorkspace(w)
ActivateWorkspaceStep(w) ==
  \/ ActivateWorkspace(w)
  \/ \E t \in 1..Len(tasks) :
       /\ tasks[t].kind = "activateWorkspace"
       /\ tasks[t].arg = KeyOf(w)
       /\ (ReturnsTo(t) \/ HandlerStep(t))

\* this step is a turn of activate() that creates the environment of key k
ActivateTurn(k) ==
  \/ Activate /\ k = ActivationKeys[1]
  \/ \E t \in 1..Len(tasks) :
       /\ tasks[t].kind = "activate"
       /\ tasks[t].todo # <<>>
       /\ Head(tasks[t].todo) = k
       /\ HandlerStep(t)

KeysOf(made) == [n \in 1..Len(made) |-> made[n][1]]

ResolvedFor(k) == \E e \in resolved : e[1] = k

----------------------------------------------------------------------------
(* C11: activateWorkspace(w) called while the map holds a resolver under    *)
(* w's key creates no object, starts no call or probe and fires no event;   *)
(* called while the map holds none, it constructs exactly one object,       *)
(* registers it and starts exactly one resolution of it.                    *)

C11_ActivateWorkspaceCall ==
  \A w \in Workspaces :
    ActivateWorkspace(w) =>
      IF environments[KeyOf(w)] # 0
        THEN /\ UNCHANGED <<instances, environments, calls, tasks,
                            workspaceState>>
             /\ probes' = <<>>
             /\ events' = <<>>
        ELSE CreatesOne(KeyOf(w))

C11_ActivateWorkspaceIdempotent == [][C11_ActivateWorkspaceCall]_vars

C11_Witness ==
  \E k \in Keys :
    /\ returned = Return("activateWorkspace", k, Void, NoHandler)
    /\ environments[k] = 1
    /\ Len(instances[k]) = 1
    /\ \E i \in 1..Len(calls) : calls[i].env = <<k, 1>>

(* C12: whenever the promise of activateWorkspace(w) resolves, a resolution *)
(* of a resolver of w has completed (and so has published its event).       *)

C12_ResolvedMeansActivated ==
  \A j \in 1..Len(returned) :
    returned[j].op = "activateWorkspace" => ResolvedFor(returned[j].key)

(* C13: activate() creates, turn by turn, exactly one environment for the   *)
(* default context when the host reports no folder, and otherwise exactly   *)
(* one per reported folder and none for the default context; when it        *)
(* returns, every environment it created has been resolved.                 *)

C13_ActivateTurns ==
  /\ \A k \in Keys :
       ActivateTurn(k) =>
         /\ CreatesOne(k)
         /\ \E t \in 1..Len(tasks') :
              /\ tasks'[t].kind = "activate"
              /\ tasks'[t].call = Len(calls')
              /\ tasks'[t].made[Len(tasks'[t].made)] = <<k, environments'[k]>>
  /\ \A j \in 1..Len(returned') :
       returned'[j].op = "activate" =>
         /\ KeysOf(returned'[j].task.made) =
              (IF folders = <<>> THEN <<DefaultKey>> ELSE folders)
         /\ \A e \in Range(returned'[j].task.made) : e \in resolved'

C13_ActivateRegistersFolders == [][C13_ActivateTurns]_vars

C13_Witness ==
  /\ Len(folders) = 2
  /\ Len(returned) = 1
  /\ returned[1].op = "activate"
  /\ KeysOf(returned[1].task.made) = folders
  /\ environments[DefaultKey] = 0
  /\ \A k \in Range(folders) :
       /\ environments[k] # 0
       /\ <<k, environments[k]>> \in resolved

(* C14: getRuby is null for every key the map does not hold, and no step of *)
(* an activateWorkspace(w2) changes the map entry, the objects or the       *)
(* getRuby of another key, or invokes asyncExec for it.                     *)

C14_ActivateWorkspaceFrame ==
  /\ \A k \in Keys : environments'[k] = 0 => ManagerGetRuby(k)' = NullDef
  /\ \A w2 \in Workspaces : \A k1 \in Keys \ {KeyOf(w2)} :
       ActivateWorkspaceStep(w2) =>
         /\ environments'[k1] = environments[k1]
         /\ instances'[k1] = instances[k1]
         /\ ManagerGetRuby(k1)' = ManagerGetRuby(k1)
         /\ \A j \in 1..Len(probes') : probes'[j].env[1] # k1

C14_OnlyThatWorkspace == [][C14_ActivateWorkspaceFrame]_vars

C14_Witness ==
  \E w1 \in Range(folders) : \E w2 \in Range(folders) \ {w1} :
    /\ Len(returned) = 1
    /\ returned[1].op = "activateWorkspace"
    /\ returned[1].task # NoHandler
    /\ returned[1].key = w2
    /\ ManagerGetRuby(w2) = ParseActivationResult(TextA)
    /\ environments[w1] = 0
    /\ ManagerGetRuby(w1) = NullDef

(* Vocabulary of the properties about the watchers *)

\* this step is a turn of the configuration watcher's loop: the event's
\* delivery when the map is not empty, or the resumption of its handler with
\* a map entry left to take
ConfigTurn ==
  \/ \E k \in ChangedScopes, p \in ConfigPaths :
       ConfigChange(k, p) /\ Registered # {}
  \/ \E t \in 1..Len(tasks) :
       /\ tasks[t].kind = "config"
       /\ Unpassed(tasks[t]) # {}
       /\ HandlerStep(t)

\* this step starts one updateRubyDefinition() call on a registered object,
\* awaited by a configuration handler, and creates no object
UpdatesOneRegistered ==
  /\ UNCHANGED <<instances, environments>>
  /\ Len(calls') = Len(calls) + 1
  /\ SubSeq(calls', 1, Len(calls)) = calls
  /\ calls'[Len(calls')].env \in RegisteredObjects
  /\ \E k \in Keys :
       /\ calls'[Len(calls')].env[1] = k
       /\ calls'[Len(calls')].path =
            Or(workspaceState'[GetStorageKey(k)], config'[k])
  /\ \E t \in 1..Len(tasks') :
       /\ tasks'[t].kind = "config"
       /\ tasks'[t].call = Len(calls')
       /\ tasks'[t].made[Len(tasks'[t].made)] = calls'[Len(calls')].env

\* a call awaited by a configuration handler fires its event when it returns
ConfigCallReturns ==
  \A t \in 1..Len(tasks) :
    (tasks[t].kind = "config" /\ ReturnsTo(t)) =>
      /\ Len(events') = 1
      /\ events'[1].workspace = WorkspaceFolder(calls[tasks[t].call].env[1])
      /\ calls[tasks[t].call].env \in resolved'

\* a configuration change outside the rubyEnvironments section does nothing
OtherChangeIsIgnored ==
  OtherConfigChange =>
    /\ UNCHANGED <<instances, environments, calls, tasks, workspaceState>>
    /\ probes' = <<>>
    /\ events' = <<>>

(* C15 as stated: when the handler of a configuration change that affects   *)
(* the section returns, every resolver that was registered when the change  *)
(* was delivered has been re-resolved and has fired its event; a change     *)
(* outside the section starts nothing and fires nothing.                    *)

C15_AllRegisteredThen ==
  /\ ConfigTurn => UpdatesOneRegistered
  /\ ConfigCallReturns
  /\ OtherChangeIsIgnored
  /\ \A j \in 1..Len(returned') :
       returned'[j].op = "config" =>
         \A e \in returned'[j].task.snap : e \in Range(returned'[j].task.made)

C15_BroadcastToAllRegisteredThen == [][C15_AllRegisteredThen]_vars

(* C15, amended: when that handler returns, every resolver that was         *)
(* registered when the change was delivered and is still registered has     *)
(* been re-resolved and has fired its event (the resolvers are taken one    *)
(* after the other, and one whose folder is removed before its turn is      *)
(* skipped); a change outside the section starts nothing and fires nothing. *)

C15_AllStillRegistered ==
  /\ ConfigTurn => UpdatesOneRegistered
  /\ ConfigCallReturns
  /\ OtherChangeIsIgnored
  /\ \A j \in 1..Len(returned') :
       returned'[j].op = "config" =>
         \A e \in returned'[j].task.snap :
           environments'[e[1]] = e[2] => e \in Range(returned'[j].task.made)

C15_BroadcastToStillRegistered == [][C15_AllStillRegistered]_vars

C15_Witness ==
  /\ Len(returned) = 1
  /\ returned[1].op = "config"
  /\ Len(returned[1].task.made) = 2
  /\ Range(returned[1].task.made) = returned[1].task.snap
  /\ returned[1].task.snap = RegisteredObjects
  /\ \A e \in RegisteredObjects : GetRuby(e) # NullDef

(* C16: when the handler of a workspace-folder change returns, every added  *)
(* folder has a resolver that this handler created and that has been        *)
(* resolved; and from the handling of the removal of a folder F until F is  *)
(* added again or activateWorkspace(F) is called, getRuby(F) is null.       *)

C16_RemovedFolderStaysNull ==
  /\ \A j \in 1..Len(returned) :
       returned[j].op = "folders" =>
         /\ Range(KeysOf(returned[j].task.made)) = returned[j].task.snap
         /\ Range(returned[j].task.made) \subseteq resolved
  /\ \A f \in discarded : ManagerGetRuby(f) = NullDef

(* C17: the getRuby() of a resolver whose updateRubyDefinition() has never  *)
(* returned is null, and so is the manager's getRuby(w) as long as no       *)
(* resolution of a resolver of w has returned, a probe in flight or not.    *)

C17_NullBeforeFirstResolution ==
  /\ \A e \in Instances : e \notin resolved => GetRuby(e) = NullDef
  /\ \A k \in Keys : ~ResolvedFor(k) => ManagerGetRuby(k) = NullDef

C17_Witness ==
  \E i \in 1..Len(calls) :
    /\ calls[i].state = "probing"
    /\ calls[i].env \notin resolved
    /\ environments[calls[i].env[1]] = calls[i].env[2]
    /\ ManagerGetRuby(calls[i].env[1]) = NullDef
    /\ resolved # {}

(* C18: a call of getRuby returns the cached definition and changes no      *)
(* resolver's definition, nor the map, the stored paths or the handlers,    *)
(* starts no call or probe and fires no event.                              *)

C18_GetRubyCall ==
  \A w \in Workspaces :
    GetRubyCall(w) =>
      /\ UNCHANGED <<instances, environments, workspaceState, config, calls,
                     tasks>>
      /\ probes' = <<>>
      /\ events' = <<>>
      /\ returned'[1].value = ManagerGetRuby(KeyOf(w))

C18_GetRubyHasNoEffect == [][C18_GetRubyCall]_vars

C18_Witness ==
  /\ Len(returned) = 1
  /\ returned[1].op = "getRuby"
  /\ returned[1].value = ParseActivationResult(TextA)
  /\ \E i \in 1..Len(calls) : calls[i].state = "probing"

----------------------------------------------------------------------------
(* The selectRuby command *)

ChosenPaths == BrowsedPaths \cup UserPaths

\* this step is a selectRuby command on the context k that got the path p
\* from the user
SelectStores(k, p) ==
  \E pick \in Picks, option \in Options :
    /\ p \in Answers(option)
    /\ Cancelled(pick, option, p) = ""
    /\ KeyOf(TargetWorkspace(pick)) = k
    /\ SelectRubyCommand(pick, option, p)

\* this step is a selectRuby command that the user dismissed at some dialog
SelectCancelled ==
  \E pick \in Picks, option \in Options :
    \E newPath \in Answers(option) :
      /\ Cancelled(pick, option, newPath) # ""
      /\ SelectRubyCommand(pick, option, newPath)

\* this step is the return of the resolution of the selectRuby call at
\* position i, asyncExec having settled with r
SelectReturns(i, r) ==
  /\ calls[i].origin = "select"
  /\ AwaitedFinishProbe(i, r)

\* the command writes p under the key of its own context, and under no other,
\* before any probe is started
WritesFirst ==
  \A k \in Keys, p \in ChosenPaths :
    SelectStores(k, p) =>
      /\ StoredPath(k)' = p
      /\ \A o \in Keys : GetStorageKey(o) # GetStorageKey(k) =>
                           StoredPath(o)' = StoredPath(o)
      /\ probes' = <<>>
      /\ events' = <<>>
      /\ calls' = Append(calls, [env |-> <<k, environments[k]>>,
                                 origin |-> "select", path |-> p,
                                 state |-> "stored"])

\* the resolution returns with exactly one event, for the context of the call
OneEventAtReturn ==
  \A i \in 1..Len(calls), r \in AwaitedResults :
    SelectReturns(i, r) =>
      /\ Len(events') = 1
      /\ events'[1].workspace = WorkspaceFolder(calls[i].env[1])
      /\ events'[1].ruby = GetRubyDefinitionFromConfig(r)

\* C19 as stated: when selectRuby() gets a non-empty path p, p is written
\* under the resolver's storage key first, the resolution that follows probes
\* p, and when it returns the stored path is p and one event was published
C19_ProbesChosenThen ==
  /\ WritesFirst
  /\ \A i \in 1..Len(calls) :
       SelectRubyResumes(i) =>
         /\ calls'[i].state = "probing"
         /\ calls'[i].path = calls[i].path
         /\ probes' = <<Exec(calls'[i])>>
         /\ events' = <<>>
  /\ OneEventAtReturn
  /\ \A i \in 1..Len(calls), r \in AwaitedResults :
       SelectReturns(i, r) =>
         \A k \in Keys : k = calls[i].env[1] =>
                           StoredPath(k)' = calls[i].path

C19_SelectProbesChosenPath == [][C19_ProbesChosenThen]_vars

\* C19, amended: when selectRuby() gets a non-empty path p, p is written
\* under the resolver's storage key (and no other) before any probe; the
\* resolution that follows probes the path stored under that key when it
\* starts; the stored path is changed by nothing but a selectRuby() of the
\* same context; and the call publishes exactly one event, at its return
C19_ProbesStoredThen ==
  /\ WritesFirst
  /\ \A i \in 1..Len(calls) :
       SelectRubyResumes(i) =>
         /\ calls'[i].state = "probing"
         /\ calls'[i].path = StoredPath(calls[i].env[1])
         /\ probes' = <<Exec(calls'[i])>>
         /\ events' = <<>>
  /\ OneEventAtReturn
  /\ \A k \in Keys :
       StoredPath(k)' # StoredPath(k) =>
         \E p \in ChosenPaths : SelectStores(k, p) /\ StoredPath(k)' = p

C19_SelectProbesStoredPath == [][C19_ProbesStoredThen]_vars

C19_Witness ==
  /\ Len(resumed) = 1
  /\ resumed[1].call.origin = "select"
  /\ resumed[1].call.path = "/browsed/ruby"
  /\ resumed[1].result = Resolved(TextA)
  /\ StoredPath(resumed[1].call.env[1]) = "/browsed/ruby"
  /\ Len(events) = 1
  /\ ManagerGetRuby(resumed[1].call.env[1]) = ParseActivationResult(TextA)

\* C20: a selectRuby command that the user dismisses at the option pick, the
\* file dialog or the input box leaves the key-value store and every
\* getRuby() as they were, starts no probe and publishes no event
C20_CancelStep ==
  SelectCancelled =>
    /\ UNCHANGED workspaceState
    /\ \A k \in Keys : ManagerGetRuby(k)' = ManagerGetRuby(k)
    /\ UNCHANGED <<calls, instances>>
    /\ probes' = <<>>
    /\ events' = <<>>

C20_CancelChangesNothing == [][C20_CancelStep]_vars

C20_Witness ==
  /\ Len(returned) = 1
  /\ returned[1].op = "selectRuby"
  /\ returned[1].value = [cancelled |-> "manual"]
  /\ StoredPath(returned[1].key) = "/browsed/ruby"
  /\ ManagerGetRuby(returned[1].key) = ParseActivationResult(TextA)

----------------------------------------------------------------------------
(* Storage keys *)

\* the storage key the text of the contract gives to the context k
NamedStorageKey(k) ==
  IF k = "__default__" THEN "rubyPath" ELSE "rubyPath:" \o k

\* C21: the manual path of the default context is stored under "rubyPath"
\* and that of a named workspace under "rubyPath:<key>"; two contexts with
\* different keys have different storage keys, and no named workspace has
\* the storage key of the default context
C21_StoreStep ==
  /\ \A a \in Keys, b \in Keys : a # b => GetStorageKey(a) # GetStorageKey(b)
  /\ \A k \in Keys \ {DefaultKey} : GetStorageKey(k) # GetStorageKey(DefaultKey)
  /\ \A k \in Keys, p \in UserPaths :
       SelectRubyStore(k, p) =>
         /\ GetStorageKey(k) = NamedStorageKey(k)
         /\ workspaceState'[NamedStorageKey(k)] = p
         /\ \A o \in DOMAIN workspaceState \ {NamedStorageKey(k)} :
              workspaceState'[o] = workspaceState[o]

C21_StorageKeys == [][C21_StoreStep]_vars

C21_Witness ==
  /\ workspaceState["rubyPath"] = "/new/ruby"
  /\ workspaceState["rubyPath:file:///w1"] = "/state/ruby"
  /\ workspaceState["rubyPath:file:///w2"] = Undefined
  /\ \E i \in 1..Len(calls) :
       /\ calls[i].origin = "select"
       /\ calls[i].state = "stored"
       /\ calls[i].env[1] = DefaultKey
  /\ environments["file:///w1"] # 0

----------------------------------------------------------------------------
(* The status item *)

\* the severity the item must show for the definition d
SeverityFor(d) ==
  IF d = NullDef THEN "Warning"
  ELSE IF d.error THEN "Error"
  ELSE "Information"

\* the JIT list in parentheses, nothing when the list is empty
JitSuffix(d) ==
  IF d.availableJITs = <<>> THEN <<>>
  ELSE <<" (">> \o Join([i \in 1..Len(d.availableJITs) |->
                           <<d.availableJITs[i]>>], ", ") \o <<")">>

LastEvent == events[Len(events)]

\* C22 as stated: after any sequence of events the item's text and severity
\* are those of the most recent event: "Ruby: Not detected" with Warning for
\* null, "Ruby: Error" with Error for the error variant, and "Ruby <version>"
\* with the JIT list in parentheses, if any, with Information for a success
C22_ShowsVersionOfLastEvent ==
  events # <<>> =>
    /\ item.severity = SeverityFor(LastEvent.ruby)
    /\ item.text =
         IF LastEvent.ruby = NullDef THEN <<"Ruby: Not detected">>
         ELSE IF LastEvent.ruby.error THEN <<"Ruby: Error">>
         ELSE <<"Ruby ">> \o LastEvent.ruby.rubyVersion
              \o JitSuffix(LastEvent.ruby)

\* C22, amended: the same, where a success whose version is empty shows
\* "Ruby unknown" in place of "Ruby <version>"
C22_ShowsLastEvent ==
  events # <<>> =>
    /\ item.severity = SeverityFor(LastEvent.ruby)
    /\ item.text =
         IF LastEvent.ruby = NullDef THEN <<"Ruby: Not detected">>
         ELSE IF LastEvent.ruby.error THEN <<"Ruby: Error">>
         ELSE IF LastEvent.ruby.rubyVersion = <<>>
           THEN <<"Ruby ", "unknown">> \o JitSuffix(LastEvent.ruby)
         ELSE <<"Ruby ">> \o LastEvent.ruby.rubyVersion
              \o JitSuffix(LastEvent.ruby)

C22_Witness ==
  /\ item.text = <<"Ruby ", "3.3.0", " (", "YJIT", ", ", "ZJIT", ")">>
  /\ item.severity = "Information"
  /\ item.detail = "Error detecting Ruby environment"
  /\ events # <<>>
  /\ LastEvent.ruby.availableJITs = <<"YJIT", "ZJIT">>

----------------------------------------------------------------------------
(* One probe per resolution *)

\* this step starts an updateRubyDefinition() call
StartsSome == \E k \in Keys : StartsFor(k)

\* C23: a resolution of a context with a configured path invokes asyncExec
\* exactly once, when it starts, with the directory of its workspace as cwd
\* and the process environment; nothing is invoked when the probe settles,
\* failed or not, and the resolution returns; a resolution of a context with
\* no configured path invokes nothing
C23_ProbeStep ==
  /\ \A k \in Keys :
       StartsFor(k) =>
         IF NothingConfigured(k)
           THEN probes' = <<>>
           ELSE /\ Len(probes') = 1
                /\ probes'[1].env = StartedIn(k).env
                /\ probes'[1].command = Or(StoredPath(k), config[k])
                /\ probes'[1].cwd = FsPath(k)
                /\ probes'[1].base = "process.env"
  /\ ~StartsSome => probes' = <<>>
  /\ \A i \in 1..Len(calls), r \in ExecResults :
       FinishProbe(i, r) => Returns(i)
  /\ \A i \in 1..Len(calls) : FinishNoPath(i) => Returns(i)

C23_OneProbePerResolution == [][C23_ProbeStep]_vars

C23_Witness ==
  /\ Len(resumed) = 1
  /\ resumed[1].result = Rejected
  /\ resumed[1].call.origin = "activate"
  /\ resumed[1].call.path = "/config/ruby"
  /\ resumed[1].call.env[1] = "file:///w1"
  /\ probes = <<>>
  /\ Cur(resumed[1].call.env) = ErrorDef
  /\ \A i \in 1..Len(calls) : calls[i].env # resumed[1].call.env

----------------------------------------------------------------------------
(* JIT detection from the activation script to the definition *)

\* the JIT compilers that the runtime rt defines
DefinedJITs(rt) ==
  (IF rt.yjit THEN {"YJIT"} ELSE {}) \cup (IF rt.zjit THEN {"ZJIT"} ELSE {})

\* C25: the definition decoded from what activation.rb prints lists exactly
\* the JIT compilers, among YJIT and ZJIT, that the probed runtime defines;
\* YJIT is absent when the runtime has no YJIT
C25_DetectsDefinedJITs ==
  decoded # Pending =>
    /\ decoded.error = FALSE
    /\ Range(decoded.availableJITs) = DefinedJITs(fields)

----------------------------------------------------------------------------
(* Definitions are not modified *)

\* the object that the currentRubyDefinition of the resolver e refers to
Referent(h, e) ==
  IF h.current[e[1]][e[2]] = 0 THEN NullDef
  ELSE h.cells[h.current[e[1]][e[2]]]

\* C26: a resolution that yields a definition constructs a new object and
\* makes the resolver refer to it; no step modifies an object constructed
\* earlier, whoever obtained it from getRuby() or from an event, whether the
\* later resolution is of the same or of another workspace
C26_ResolutionStep ==
  /\ \A n \in 1..Len(heap.cells) :
       /\ n <= Len(heap'.cells)
       /\ heap'.cells[n] = heap.cells[n]
  /\ \A e \in Instances : Referent(heap, e) = Cur(e)
  /\ \A i \in 1..Len(calls), r \in AwaitedResults :
       HeapFinishProbe(i, r) =>
         /\ Len(heap'.cells) = Len(heap.cells) + 1
         /\ heap'.current[calls[i].env[1]][calls[i].env[2]] = Len(heap'.cells)
         /\ heap'.cells[Len(heap'.cells)] = CurAfter(calls[i].env)
         /\ events'[1].ruby = heap'.cells[Len(heap'.cells)]

C26_DefinitionsAreNotModified == [][C26_ResolutionStep]_vars

C26_Witness ==
  /\ Len(heap.cells) = 3
  /\ heap.cells[1] = ParseActivationResult(TextA)
  /\ heap.cells[2] = ParseActivationResult(TextA)
  /\ heap.cells[3] = ErrorDef
  /\ heap.current["file:///w1"] = <<3>>
  /\ heap.current["file:///w2"] = <<2>>
  /\ Len(resumed) = 1
  /\ resumed[1].call.origin = "select"

----------------------------------------------------------------------------
(* A failing probe stays in its workspace *)

\* the handler that has returned in the last step, if one has
Finished(kind) ==
  /\ Len(returned) = 1
  /\ returned[1].op = kind
  /\ returned[1].task # NoHandler

\* C27: a probe of one workspace that fails (the invocation throws, or the
\* output cannot be decoded) sets the error definition in that workspace's
\* resolver only and returns to the handler that awaits it, which goes on:
\* no call is left raised, every probe that settles fires exactly one event
\* and gives its own resolver the decoding of its own result, and a handler
\* that returns has resolved every resolver it took
C27_FailureStep ==
  /\ NoRaisedCall'
  /\ \A i \in 1..Len(calls), r \in ProbeOutcomes :
       AwaitedFinishProbe(i, r) =>
         /\ Returns(i)
         /\ CurAfter(calls[i].env) =
              (IF r \in FailingResults THEN ErrorDef
               ELSE ParseActivationResult(r.stderr))
         /\ \A e \in Instances \ {calls[i].env} : CurAfter(e) = Cur(e)
         /\ Len(events') = 1
         /\ events'[1].workspace = WorkspaceFolder(calls[i].env[1])
         /\ events'[1].ruby = CurAfter(calls[i].env)
         /\ \A t \in 1..Len(tasks) : tasks[t].call = i => tasks'[t].call = 0
  /\ Finished("activate") =>
       /\ Range(KeysOf(returned[1].task.made)) = returned[1].task.snap
       /\ Range(returned[1].task.made) \subseteq resolved
  /\ Finished("config") =>
       /\ returned[1].task.snap \subseteq Range(returned[1].task.made)
       /\ Range(returned[1].task.made) \subseteq resolved

C27_FailureStaysInItsWorkspace == [][C27_FailureStep]_vars

C27_Witness ==
  /\ Finished("activate")
  /\ returned[1].task.made = <<<<"file:///w1", 1>>, <<"file:///w2", 1>>>>
  /\ Cur(<<"file:///w1", 1>>) = ErrorDef
  /\ Cur(<<"file:///w2", 1>>) = ParseActivationResult(TextA)

----------------------------------------------------------------------------
(* Overlapping resolutions of one resolver *)

\* the calls in flight on the same object as the call at position i
Overlapping(i) ==
  {j \in 1..Len(calls) : j # i /\ calls[j].env = calls[i].env}

\* what a resolution assigns when its probe has settled with r
Outcome(r) ==
  IF r.rejected THEN ErrorDef
  ELSE IF ParseActivationResult(r.stderr) = Thrown THEN ErrorDef
  ELSE ParseActivationResult(r.stderr)

\* C28: overlapping updateRubyDefinition() calls of one resolver are not
\* serialized: whichever call resumes assigns its own result and fires it,
\* whether calls that started before or after it on the same resolver are
\* still in flight, so that once all have returned getRuby() is the result
\* of the call that resumed last, which is the last event fired, also when
\* that call started first and read an older path
C28_ResumeStep ==
  /\ \A i \in 1..Len(calls), r \in ExecResults :
       (Overlapping(i) # {} /\ FinishProbe(i, r)) =>
         /\ CurAfter(calls[i].env) = Outcome(r)
         /\ events' = <<[workspace |-> WorkspaceFolder(calls[i].env[1]),
                         ruby |-> Outcome(r)]>>
         /\ \A j \in Overlapping(i) : \E n \in 1..Len(calls') :
              calls'[n] = calls[j]
  /\ \A i \in 1..Len(calls) :
       (Overlapping(i) # {} /\ FinishNoPath(i)) =>
         /\ CurAfter(calls[i].env) = NullDef
         /\ events' = <<[workspace |-> WorkspaceFolder(calls[i].env[1]),
                         ruby |-> NullDef]>>
  /\ \A e \in Instances :
       (\A i \in 1..Len(calls) : calls[i].env # e) => CurAfter(e) = Cur(e)

C28_LastToFinishWins == [][C28_ResumeStep]_vars

C28_Witness ==
  /\ Len(resumed) = 1
  /\ resumed[1].call.origin = "activate"
  /\ resumed[1].call.path = "/config/ruby"
  /\ resumed[1].result = Rejected
  /\ StoredPath(resumed[1].call.env[1]) = "/new/ruby"
  /\ \A i \in 1..Len(calls) : calls[i].env # resumed[1].call.env
  /\ environments[resumed[1].call.env[1]] = resumed[1].call.env[2]
  /\ ManagerGetRuby(resumed[1].call.env[1]) = ErrorDef
  /\ events = <<[workspace |-> WorkspaceFolder(resumed[1].call.env[1]),
                 ruby |-> ErrorDef]>>

----------------------------------------------------------------------------
(* Environment values that hold the key/value separator *)

\* C29: an environment entry is split once, at the first key/value
\* separator: the name is the text before it and the value is all the text
\* after it, further separators included
C29_ValueKeptWhole ==
  (fields # NoFields /\ decoded # Pending) =>
    /\ decoded.error = FALSE
    /\ DOMAIN decoded.env = Names(fields)
    /\ \A n \in Names(fields) : decoded.env[n] = LastEntry(fields, n)[2]

----------------------------------------------------------------------------
(* Frames with missing fields *)

HasFrame(text) == Cardinality(Positions(text, ACTIVATION_SEPARATOR)) >= 2

\* C30: the decoding of a text that holds a frame is a success definition
\* whatever the frame holds: fields that are malformed or missing do not
\* make it an error or an exception, and the version is the text of the
\* first field, empty when the frame has none
C30_FrameAlwaysDecodes ==
  (decoded # Pending /\ HasFrame(stderr)) =>
    /\ decoded # Thrown
    /\ decoded # ErrorDef
    /\ decoded.error = FALSE
    /\ decoded.rubyVersion = Split(RegExpExec(stderr)[1], FIELD_SEPARATOR)[1]

----------------------------------------------------------------------------
(* Output around the frame *)

\* the frame alone
FrameAlone == NoisyText(<<>>, Payload(fields.frame), <<>>)

\* the text between the first and the last frame separator of the text
BetweenFirstAndLast(text) ==
  LET occ == Occurrences(text, ActivationSeparatorChars)
  IN SubSeq(text, Min(occ) + Len(ActivationSeparatorChars), Max(occ) - 1)

\* no frame separator begins in noise1 or ends in noise2: the only
\* occurrence in noise1 + FRAME is that FRAME, and likewise in FRAME + noise2
NoStraddle ==
  /\ Occurrences(fields.noise1 \o ActivationSeparatorChars,
                 ActivationSeparatorChars) = {Len(fields.noise1) + 1}
  /\ Occurrences(ActivationSeparatorChars \o fields.noise2,
                 ActivationSeparatorChars) = {1}

\* C31, as stated: whatever noises without a frame separator stand around
\* the frame, the decoded definition is that of the frame alone, and the
\* payload taken is what stands between the first and the last separator
C31_AnyNoiseIgnored ==
  decoded # Pending =>
    /\ decoded = ParseActivationResultChars(FrameAlone)
    /\ RegExpExecChars(stderr) = <<BetweenFirstAndLast(stderr)>>

\* C31, amended: for noises that hold no frame separator and form none with
\* the separator next to them, the decoded definition is that of the frame
\* alone; for every noise without a frame separator the payload taken is
\* what stands between the first and the last separator of the text
C31_NoiseIgnored ==
  decoded # Pending =>
    /\ NoStraddle => decoded = ParseActivationResultChars(FrameAlone)
    /\ RegExpExecChars(stderr) = <<BetweenFirstAndLast(stderr)>>

C31_Witness ==
  /\ decoded # Pending
  /\ NoStraddle
  /\ fields.noise1 \notin {<<>>, <<"w", "a", "r", "n">>}
  /\ fields.noise2 \notin {<<>>, <<"w", "a", "r", "n">>}
  /\ decoded.error = FALSE
  /\ decoded.rubyVersion = <<"3">>
  /\ DOMAIN decoded.env = {<<"k">>}

----------------------------------------------------------------------------
(* The shell of the probe *)

\* C32: every probe is launched with the shell option set to the shell the
\* user has configured exactly when the platform is not Windows and that
\* shell is not the empty string; on Windows, or with an empty shell string,
\* the shell option is undefined
C32_ShellStep ==
  \A i \in 1..Len(probes') :
    /\ (probes'[i].shell # Undefined) <=>
         (host.platform # "win32" /\ host.shell # "")
    /\ probes'[i].shell \in {Undefined, host.shell}

----------------------------------------------------------------------------
(* The environment from the activation script to the definition *)

\* the entries of the runtime's ENV that activation.rb writes, ENV holding
\* each name once
ValidEntries == SelectSeq(fields.entries, ValidEncoding)
NamesOnce ==
  \A i, j \in 1..Len(fields.entries) :
    fields.entries[i][1] = fields.entries[j][1] => i = j

\* C33: the env of the definition decoded from what activation.rb prints
\* has exactly the names of the ENV entries whose values are valid UTF-8,
\* each with its own value, and no other key
C33_EnvOfTheProbe ==
  (decoded # Pending /\ NamesOnce) =>
    /\ decoded.error = FALSE
    /\ DOMAIN decoded.env = {ValidEntries[i][1] : i \in 1..Len(ValidEntries)}
    /\ \A i \in 1..Len(ValidEntries) :
         decoded.env[ValidEntries[i][1]] = ValidEntries[i][2]

----------------------------------------------------------------------------
(* Progress of the other workspaces while a probe hangs *)

\* a configuration handler has still to refresh the registered resolver of k
ConfigRefreshDue(k) ==
  /\ k \in Registered
  /\ \E t \in 1..Len(tasks) :
       tasks[t].kind = "config" /\ k \notin tasks[t].passed

\* the last step published a ChangeEvent of the workspace k
Published(k) ==
  events # <<>> /\ events[1].workspace = WorkspaceFolder(k)

\* C34: after a settings change every registered resolver whose own probe
\* terminates eventually publishes its ChangeEvent, even if the probe of
\* another registered workspace never terminates
C34_OthersStillPublish ==
  \A k \in Keys \ {HangingKey} : ConfigRefreshDue(k) ~> Published(k)

----------------------------------------------------------------------------
(* Store, then publish *)

\* C35: when a resolution publishes its ChangeEvent, the publishing
\* resolver has already stored the definition: at the delivery getRuby() of
\* that resolver returns exactly event.ruby
C35_PublishStep ==
  \A i \in 1..Len(calls) :
    (FinishNoPath(i) \/ \E r \in ExecResults : FinishProbe(i, r)) =>
      \A n \in 1..Len(events') :
        /\ events'[n].ruby = CurAfter(calls[i].env)
        /\ events'[n].workspace = WorkspaceFolder(calls[i].env[1])

C35_StoredBeforePublished == [][C35_PublishStep]_vars

C35_Witness ==
  /\ Len(events) = 1
  /\ Len(resumed) = 1
  /\ events[1].ruby = ParseActivationResult(TextA)
  /\ Cur(resumed[1].call.env) = events[1].ruby
  /\ resumed[1].call.origin = "select"

----------------------------------------------------------------------------
(* The registry and the bus *)

\* the resolver that published in the last step
Publisher == resumed[1].call.env

\* C36: no ChangeEvent is published by a resolver that is not the one the
\* registry holds for its workspace (replaced or removed in the meantime),
\* and in a state where no resolution is in flight the registered resolver
\* of a workspace, once it has published, returns from getRuby the ruby of
\* the last ChangeEvent published for that workspace
C36_RegistryAgreesWithBus ==
  (events # <<>> /\ resumed # <<>>) =>
    /\ environments[Publisher[1]] = Publisher[2]
    /\ \A n \in 1..Len(events) :
         LET k == KeyOf(events[n].workspace)
         IN (calls = <<>> /\ k \in Registered
             /\ <<k, environments[k]>> \in resolved) =>
              ManagerGetRuby(k) = events[n].ruby

----------------------------------------------------------------------------
(* Concurrent callers of activateWorkspace *)

\* the calls in flight on the resolvers of the key k
InFlightFor(k) == {i \in 1..Len(calls) : calls[i].env[1] = k}

\* C37: however many activateWorkspace(w) calls overlap, the workspace gets
\* exactly one resolver and at most one probe: the call that finds no entry
\* writes the entry in the step that constructs the resolver, before it
\* awaits, and every later call finds it
C37_CallersStep ==
  /\ \A k \in Keys :
       /\ Len(instances'[k]) <= 1
       /\ Cardinality(InFlightFor(k)') <= 1
       /\ environments'[k] = Len(instances'[k])
  /\ \A n \in 1..Len(probes') :
       /\ instances[probes'[n].env[1]] = <<>>
       /\ Len(probes') = 1
       /\ Len(instances'[probes'[n].env[1]]) = 1

C37_OneResolverPerWorkspace == [][C37_CallersStep]_vars

C37_Witness ==
  \E k \in Keys :
    /\ returned = Return("activateWorkspace", k, Void, NoHandler)
    /\ \E t \in 1..Len(tasks) :
         /\ tasks[t].kind = "activateWorkspace"
         /\ tasks[t].arg = k
         /\ tasks[t].call # 0
         /\ calls[tasks[t].call].state = "probing"
    /\ Len(instances[k]) = 1
    /\ Cardinality(InFlightFor(k)) = 1

----------------------------------------------------------------------------
(* The value of getRuby() during a resolution *)

\* the values getRuby() of a resolver can return
DefinitionValues ==
  {NullDef, ErrorDef} \cup {ParseActivationResult(t) : t \in ProbeTexts}

\* the step is the resumption of a resolution of the resolver e
Stores(e) ==
  \E i \in 1..Len(calls) :
    /\ calls[i].env = e
    /\ FinishNoPath(i) \/ \E r \in ExecResults : FinishProbe(i, r)

\* C38: while a resolution of a resolver is in flight getRuby() keeps
\* returning the value stored before; there is no value for "resolving" and
\* no return to null, and the value changes only in the step that stores the
\* result of a resolution
C38_GetRubyStep ==
  \A e \in Instances :
    /\ CurAfter(e) \in DefinitionValues
    /\ CurAfter(e) # Cur(e) => Stores(e)

C38_ValueKeptWhileResolving == [][C38_GetRubyStep]_vars

C38_Witness ==
  \E i \in 1..Len(calls) :
    /\ calls[i].state = "probing"
    /\ calls[i].origin = "select"
    /\ Cur(calls[i].env) = ParseActivationResult(TextA)

----------------------------------------------------------------------------
(* A resolved workspace stays resolved *)

\* C39: once getRuby(w) is not null it is never null again, as long as the
\* folder is not removed and an executable path stays configured for it,
\* whatever calls of activate() and activateWorkspace() follow
C39_StaysStep ==
  \A k \in Keys :
    (ManagerGetRuby(k) # NullDef /\ ~Falsy(GetRubyPath(k))
     /\ ~Falsy(GetRubyPath(k))') =>
      ManagerGetRuby(k)' # NullDef

C39_NeverNullAgain == [][C39_StaysStep]_vars

----------------------------------------------------------------------------
(* The status item after several events *)

\* what the item shows when the definition d comes as the first event
ShownAlone(d) == Refresh(NewItem, d)

\* C40: after any sequence of ChangeEvents the text, the detail and the
\* severity of the status item are a function of the definition of the most
\* recent event alone, so they are what that definition shows as the first
\* event; after an error or a not-detected event followed by a success the
\* detail shows neither message
C40_ItemOfLastEventAlone ==
  events # <<>> =>
    /\ item = ShownAlone(events[1].ruby)
    /\ (events[1].ruby # NullDef /\ ~events[1].ruby.error) =>
         item.detail \notin {"No Ruby environment detected",
                             "Error detecting Ruby environment"}

====
